---- MODULE Spec2Model ----
(***************************************************************************)
(* A model of the z_check / zf_check leveled logger (z_check.c,            *)
(* zf_check.c) and of the check macros layered on it (z_check.h,           *)
(* z_check_guts.h, zf_check.h, zf_check_guts.h).                           *)
(*                                                                         *)
(* The logger is the process-wide singleton of the dynamic configuration:  *)
(* m_moduleName, m_ZLogFunc (m_zfcLogFunc), m_logLevel, m_logLevelOrig     *)
(* and, for zf_check, the static buffer m_message.  The variable lib       *)
(* says which of the two libraries the program is linked with; it is       *)
(* chosen once and never changes.  Both are modelled with their external   *)
(* sinks compiled in (Z_CHECK_HAS_SYSLOG; ZF_CHECK_HAS_ZF_LOG and          *)
(* ZF_CHECK_HAS_SYSLOG).                                                   *)
(*                                                                         *)
(* The check macros run inside a calling function that owns `status`, has  *)
(* BodyLen statements that may be checks, and ends in a chain of NumLabels *)
(* labels, the last of which is `cleanup`.                                 *)
(*                                                                         *)
(* Strings are sequences of one-character strings.  ZLogLevel_t is an enum *)
(* without negative enumerators, an unsigned type in the builds of the     *)
(* repository, so a level is a natural number and the (unsigned) casts of  *)
(* ZLog_LevelPasses and ZLog_LevelIsLegal leave it as it is.               *)
(***************************************************************************)
EXTENDS Integers, Sequences, FiniteSets, TLC

VARIABLES
    lib,             \* "z_check" or "zf_check": the library linked in
    m_moduleName,    \* module name; NULL in zf_check when unset
    m_ZLogFunc,      \* the sink function pointer, NULL when unset
    m_logLevel,      \* current threshold
    m_logLevelOrig,  \* threshold given by Open
    m_message,       \* zf_check.c: the static message buffer
    syslogOpen,      \* whether openlog() has been called and not closelog()
    status,          \* the calling function's status variable
    pc,              \* position of the calling function
    executed,        \* positions whose statement ran in this invocation
    skipped,         \* positions a goto of this invocation jumped over
    frames,          \* the ZLog / ZfcLog calls in progress, statement by statement
    last             \* the most recent operation and what it did

loggerVars == <<m_moduleName, m_ZLogFunc, m_logLevel, m_logLevelOrig>>
callerVars == <<status, pc, executed, skipped>>
vars == <<lib, m_moduleName, m_ZLogFunc, m_logLevel, m_logLevelOrig, m_message,
          syslogOpen, status, pc, executed, skipped, frames, last>>

----------------------------------------------------------------------------
(* Bounds of the model *)

MaxLevelArg == 8        \* level arguments go up to MaxLevelArg (8 is illegal)
MaxLogType == 4         \* log type arguments are 0..MaxLogType
MaxStatus == 2          \* new status arguments are -MaxStatus..0
BodyLen == 2            \* statements of the calling function before its labels
NumLabels == 2          \* labels of the calling function

----------------------------------------------------------------------------
(* Types and constants of the libraries *)

NULL == "NULL"

\* the null pointer as a const char *: of the type of strings, and no string
\* of characters
NULL_NAME == <<NULL>>

Z_EMERG == 0
Z_ALERT == 1
Z_CRIT == 2
Z_ERR == 3
Z_WARN == 4
Z_NOTICE == 5
Z_INFO == 6
Z_DEBUG == 7

MAX_LEGAL_LEVEL == Z_DEBUG
MESSAGE_MAX_LEN == 512

\* ZLogType_t of z_check.h and ZfLogType_t of zf_check.h, by library
LogTypeOf(l, name) ==
    IF l = "z_check"
    THEN CASE name = "Z_STDOUT" -> 0
           [] name = "Z_STDERR" -> 1
           [] name = "Z_SYSLOG" -> 2
           [] OTHER -> -1
    ELSE CASE name = "Z_ZFLOG"  -> 0
           [] name = "Z_STDERR" -> 1
           [] name = "Z_STDOUT" -> 2
           [] name = "Z_SYSLOG" -> 3
           [] OTHER -> -1

\* level arguments: the levels the examples use and their neighbours, and
\* the values above MAX_LEGAL_LEVEL up to MaxLevelArg
LevelArgs == {Z_EMERG, Z_ERR, Z_WARN, Z_INFO, Z_DEBUG} \cup ((MAX_LEGAL_LEVEL + 1)..MaxLevelArg)
LogTypeArgs == 0..MaxLogType
StatusArgs == (0 - MaxStatus)..0

Str_svc == <<"s", "v", "c">>
DEFAULT_MODULE_NAME_Z == <<"z", "_", "c", "h", "e", "c", "k">>
DEFAULT_MODULE_NAME_ZF == <<"U", "n", "n", "a", "m", "e", "d", " ", "M", "o", "d", "u", "l", "e">>
ModuleNameArgs == {NULL_NAME, <<>>, Str_svc}

----------------------------------------------------------------------------
(* printf-style formatting.  A format string is a sequence of segments: a  *)
(* run of literal characters, or one of the directives %d, %s and %ls.     *)
(* The arguments are integers (%d), strings (%s) and wide strings (%ls).   *)
(* A wide string that holds a character with no multibyte representation   *)
(* makes the formatter fail with -1 (EILSEQ).                              *)

Lit(text) == [kind |-> "lit", text |-> text]
Dir(kind) == [kind |-> kind, text |-> <<>>]

InvalidWideChar == "<invalid wide character>"
Convertible(wide) == \A i \in DOMAIN wide : wide[i] # InvalidWideChar

Digits == <<"0", "1", "2", "3", "4", "5", "6", "7", "8", "9">>

RECURSIVE Decimal(_)
Decimal(n) ==
    IF n < 0 THEN <<"-">> \o Decimal(0 - n)
    ELSE IF n < 10 THEN <<Digits[n + 1]>>
    ELSE Decimal(n \div 10) \o <<Digits[(n % 10) + 1]>>

\* faulty variant: the directives are dropped, as if no argument were passed
RECURSIVE Expand_NoArgs(_, _)
Expand_NoArgs(format, args) ==
    IF format = <<>> THEN <<>>
    ELSE IF Head(format).kind = "lit"
         THEN Head(format).text \o Expand_NoArgs(Tail(format), args)
    ELSE Expand_NoArgs(Tail(format), args)

\* the expansion of a format whose directives all convert
RECURSIVE Expand(_, _)
Expand(format, args) ==
    IF format = <<>> THEN <<>>
    ELSE IF Head(format).kind = "lit"
         THEN Head(format).text \o Expand(Tail(format), args)
    ELSE IF Head(format).kind = "d"
         THEN Decimal(Head(args)) \o Expand(Tail(format), Tail(args))
    ELSE Head(args) \o Expand(Tail(format), Tail(args))

\* whether a directive of the format fails to convert its argument
RECURSIVE FormatFails(_, _)
FormatFails(format, args) ==
    IF format = <<>> THEN FALSE
    ELSE IF Head(format).kind = "lit" THEN FormatFails(Tail(format), args)
    ELSE IF Head(format).kind = "ls" /\ ~Convertible(Head(args)) THEN TRUE
    ELSE FormatFails(Tail(format), Tail(args))

\* the characters of the format string itself
RECURSIVE RawText(_)
RawText(format) ==
    IF format = <<>> THEN <<>>
    ELSE IF Head(format).kind = "lit"
         THEN Head(format).text \o RawText(Tail(format))
    ELSE IF Head(format).kind = "d" THEN <<"%", "d">> \o RawText(Tail(format))
    ELSE IF Head(format).kind = "s" THEN <<"%", "s">> \o RawText(Tail(format))
    ELSE <<"%", "l", "s">> \o RawText(Tail(format))

\* faulty variant: size characters are kept, none left for the terminator
Truncate_OffByOne(s, size) == IF Len(s) > size THEN SubSeq(s, 1, size) ELSE s

Truncate(s, size) == IF Len(s) > size - 1 THEN SubSeq(s, 1, size - 1) ELSE s

\* vsnprintf(message, size, format, args) and snprintf: rc is the length of
\* the whole expansion, or -1 when the formatter reports an error; buf is
\* what the buffer holds afterwards.
Vsnprintf(size, format, args) ==
    IF FormatFails(format, args) THEN [rc |-> -1, buf |-> <<>>]
    ELSE [rc |-> Len(Expand(format, args)),
          buf |-> Truncate(Expand(format, args), size)]

FailMarker ==
    <<"(", "f", "a", "i", "l", "e", "d", " ", "t", "o", " ", "f", "o", "r", "m",
      "a", "t", " ", "m", "e", "s", "s", "a", "g", "e", ")", " ">>

\* faulty variant: no fallback when vsnprintf fails
FormatMessage_NoFallback(format, args) ==
    Vsnprintf(MESSAGE_MAX_LEN, format, args)

\* the formatting part of ZLog / ZfcLog: vsnprintf, then the fallback
FormatMessage(format, args) ==
    LET first == Vsnprintf(MESSAGE_MAX_LEN, format, args)
    IN  IF -1 = first.rc
        THEN Vsnprintf(MESSAGE_MAX_LEN, <<Lit(FailMarker), Dir("s")>>,
                       <<RawText(format)>>)
        ELSE first

----------------------------------------------------------------------------
(* What an operation does to the world outside the logger state is kept as *)
(* a sequence of events in last.events:                                    *)
(*   "call"     a call of ZLog / ZfcLog (level)                            *)
(*   "sink"     an invocation of the sink function fn (level, message)     *)
(*   "stderr"   a line written directly to stderr with fprintf             *)
(*   "openlog", "closelog"  the connection to the external log service     *)

Ev(kind, fn, level, text) == [kind |-> kind, fn |-> fn, level |-> level, text |-> text]

NoticeText_Z == <<"Error: May not use ZLog() before calling ZLog_Open()\n">>
NoticeText_ZF == <<"Error: May not use ZfcLog() before calling ZfcLog_Open()\n">>
BadLevelText == <<"Warning: Invalid log level (%u); falling back to MAX_LEGAL_LEVEL (%u)\n">>
BadTypeText == <<"Warning: Unknown log type (%d); falling back to stderr\n">>

OpenTwiceText_Z ==
    <<"c", "a", "l", "l", "e", "d", " ", "Z", "L", "o", "g", "_", "O", "p",
      "e", "n", "(", ")", " ", "t", "w", "i", "c", "e", " ", "i", "n", " ",
      "s", "a", "m", "e", " ", "m", "o", "d", "u", "l", "e", ",", " ">>
OpenTwiceText_ZF ==
    <<"c", "a", "l", "l", "e", "d", " ", "Z", "f", "c", "L", "o", "g", "_",
      "O", "p", "e", "n", "(", ")", " ", "t", "w", "i", "c", "e", " ", "i",
      "n", " ", "s", "a", "m", "e", " ", "m", "o", "d", "u", "l", "e", ",",
      " ">>

SelectKind(events, kind) == SelectSeq(events, LAMBDA e : e.kind = kind)
SinkCalls(events) == SelectKind(events, "sink")
LogCalls(events) == SelectKind(events, "call")
StderrLines(events) == SelectKind(events, "stderr")

\* the record kept in `last`: the operation, the condition of a check macro,
\* the events of the operation, for LevelSet its argument and the threshold
\* it replaced, and whether the operation before was a LevelSet or a Close
Done(op, cond, arg, events) ==
    [op |-> op, cond |-> cond, events |-> events, arg |-> arg,
     preLevel |-> IF op = "LevelSet" THEN m_logLevel ELSE 0,
     prev |-> IF last.op \in {"LevelSet", "Close"} THEN last.op ELSE "other"]

\* no call of ZLog / ZfcLog is being followed statement by statement
NoFrames == <<>>

NoneDone ==
    [op |-> "none", cond |-> FALSE, events |-> <<>>, arg |-> 0, preLevel |-> 0,
     prev |-> "other"]

----------------------------------------------------------------------------
(* z_check.c *)

ZLog_LevelIsLegal(level) == MAX_LEGAL_LEVEL >= level

\* faulty variant: the illegal level is kept
ZLog_LevelSanitize_Kept(logLevel) == logLevel

ZLog_LevelSanitize(logLevel) ==
    IF ~ZLog_LevelIsLegal(logLevel) THEN MAX_LEGAL_LEVEL ELSE logLevel

\* the fprintf of ZLog_LevelSanitize
ZLog_LevelSanitizeWarning(logLevel) ==
    IF ~ZLog_LevelIsLegal(logLevel)
    THEN <<Ev("stderr", "fprintf", logLevel, BadLevelText)>>
    ELSE <<>>

\* faulty variant: the gate excludes the threshold itself
ZLog_LevelPasses_Strict(level) == level < m_logLevel

ZLog_LevelPasses(level) == level <= m_logLevel

\* faulty variant: the `if (NULL == m_ZLogFunc)` test is missing
ZLogEvents_NoNullCheck(level, format, args) ==
    <<Ev("call", "ZLog", level, <<>>)>> \o
    (IF ZLog_LevelPasses(level)
     THEN LET r == FormatMessage(format, args)
          IN  IF 0 < r.rc
              THEN <<Ev("sink", m_ZLogFunc, level, r.buf)>>
              ELSE <<>>
     ELSE <<>>)

\* faulty variant: the comparison of the gate is the wrong way round
ZLogEvents_GateInverted(level, format, args) ==
    <<Ev("call", "ZLog", level, <<>>)>> \o
    (IF m_ZLogFunc = NULL
     THEN <<Ev("stderr", "fprintf", level, NoticeText_Z)>>
     ELSE IF m_logLevel <= level
          THEN LET r == FormatMessage(format, args)
               IN  IF 0 < r.rc
                   THEN <<Ev("sink", m_ZLogFunc, level, r.buf)>>
                   ELSE <<>>
          ELSE <<>>)

\* faulty variant: the sink is called for every rc that is not negative
ZLogEvents_EmptySent(level, format, args) ==
    <<Ev("call", "ZLog", level, <<>>)>> \o
    (IF m_ZLogFunc = NULL
     THEN <<Ev("stderr", "fprintf", level, NoticeText_Z)>>
     ELSE IF ZLog_LevelPasses(level)
          THEN LET r == FormatMessage(format, args)
               IN  IF 0 <= r.rc
                   THEN <<Ev("sink", m_ZLogFunc, level, r.buf)>>
                   ELSE <<>>
          ELSE <<>>)

\* ZLog(level, file, line, func, format, ...): the events of one call
ZLogEvents(level, format, args) ==
    <<Ev("call", "ZLog", level, <<>>)>> \o
    (IF m_ZLogFunc = NULL
     THEN <<Ev("stderr", "fprintf", level, NoticeText_Z)>>
     ELSE IF ZLog_LevelPasses(level)
          THEN LET r == FormatMessage(format, args)
               IN  IF 0 < r.rc
                   THEN <<Ev("sink", m_ZLogFunc, level, r.buf)>>
                   ELSE <<>>
          ELSE <<>>)

\* strncpy(m_moduleName, moduleNameToUse, Z_CHECK_MODULE_NAME_MAX_LEN - 1)
\* into an array whose last byte stays 0.  z_check.c uses the macro and no
\* file of src/ defines it: the value here is taken to exceed the length of
\* every module name of ModuleNameArgs and of DEFAULT_MODULE_NAME.
Z_CHECK_MODULE_NAME_MAX_LEN == 32

\* faulty variant: the test for NULL is missing
ZLog_ModuleNameInit_NoDefault(moduleName) ==
    Truncate(moduleName, Z_CHECK_MODULE_NAME_MAX_LEN)

\* the byte 0
NUL == "NUL"

\* static char m_moduleName[Z_CHECK_MODULE_NAME_MAX_LEN] when it holds the
\* string name: the bytes after the string are 0, from the initializer, from
\* the memset of ZLog_Close and from the padding of strncpy
ModuleNameArray(name) ==
    [i \in 1..Z_CHECK_MODULE_NAME_MAX_LEN |->
        IF i <= Len(name) THEN name[i] ELSE NUL]

\* strncpy(dst, src, n): the characters of src, at most n of them, then
\* bytes 0 up to n bytes in all; the bytes of dst after the first n stay
Strncpy(dst, src, n) ==
    [i \in DOMAIN dst |->
        IF i > n THEN dst[i] ELSE IF i <= Len(src) THEN src[i] ELSE NUL]

\* strlen of the bytes of array from index i on, plus i - 1: the number of
\* bytes before the first byte 0 at or after i
RECURSIVE Strlen(_, _)
Strlen(array, i) ==
    IF i \notin DOMAIN array \/ array[i] = NUL THEN i - 1
    ELSE Strlen(array, i + 1)

\* the string an array holds: the bytes before its first byte 0
CString(array) == [i \in 1..Strlen(array, 1) |-> array[i]]

\* the module name after ZLog_ModuleNameInit(moduleName)
ZLog_ModuleNameInit(moduleName) ==
    CString(Strncpy(ModuleNameArray(m_moduleName),
                    IF moduleName # NULL_NAME THEN moduleName
                    ELSE DEFAULT_MODULE_NAME_Z,
                    Z_CHECK_MODULE_NAME_MAX_LEN - 1))

\* faulty variant: the switch has no default case, so an unknown log type
\* leaves the sink as it was
ZLog_OpenConfigure_NoDefault(logType, logLevel, moduleName) ==
    /\ m_moduleName' = ZLog_ModuleNameInit(moduleName)
    /\ m_logLevel' = ZLog_LevelSanitize(logLevel)
    /\ m_logLevelOrig' = ZLog_LevelSanitize(logLevel)
    /\ m_ZLogFunc' = (IF logType = LogTypeOf(lib, "Z_STDERR") THEN "ZLog_StdErr"
                      ELSE IF logType = LogTypeOf(lib, "Z_STDOUT") THEN "ZLog_StdOut"
                      ELSE IF logType = LogTypeOf(lib, "Z_SYSLOG") THEN "ZLog_Syslog"
                      ELSE m_ZLogFunc)
    /\ syslogOpen' = (logType = LogTypeOf(lib, "Z_SYSLOG") \/ syslogOpen)
    /\ last' = Done("Open", FALSE, 0,
                    ZLog_LevelSanitizeWarning(logLevel) \o
                    (IF logType = LogTypeOf(lib, "Z_SYSLOG")
                     THEN <<Ev("openlog", "openlog", 0, ZLog_ModuleNameInit(moduleName))>>
                     ELSE <<>>))

\* the else branch of ZLog_Open: the logger is configured
ZLog_OpenConfigure(logType, logLevel, moduleName) ==
    /\ m_logLevel' = ZLog_LevelSanitize(logLevel)
    /\ m_logLevelOrig' = ZLog_LevelSanitize(logLevel)
    /\ m_moduleName' = ZLog_ModuleNameInit(moduleName)
    /\ IF logType = LogTypeOf(lib, "Z_STDERR")
       THEN /\ m_ZLogFunc' = "ZLog_StdErr"
            /\ syslogOpen' = syslogOpen
            /\ last' = Done("Open", FALSE, 0, ZLog_LevelSanitizeWarning(logLevel))
       ELSE IF logType = LogTypeOf(lib, "Z_STDOUT")
       THEN /\ m_ZLogFunc' = "ZLog_StdOut"
            /\ syslogOpen' = syslogOpen
            /\ last' = Done("Open", FALSE, 0, ZLog_LevelSanitizeWarning(logLevel))
       ELSE IF logType = LogTypeOf(lib, "Z_SYSLOG")
       THEN /\ m_ZLogFunc' = "ZLog_Syslog"
            /\ syslogOpen' = TRUE
            /\ last' = Done("Open", FALSE, 0,
                            ZLog_LevelSanitizeWarning(logLevel) \o
                            <<Ev("openlog", "openlog", 0,
                                 ZLog_ModuleNameInit(moduleName))>>)
       ELSE /\ m_ZLogFunc' = "ZLog_StdErr"
            /\ syslogOpen' = syslogOpen
            /\ last' = Done("Open", FALSE, 0,
                            ZLog_LevelSanitizeWarning(logLevel) \o
                            <<Ev("stderr", "fprintf", logType, BadTypeText)>>)

\* faulty variant: the `if (NULL != m_ZLogFunc)` test is missing
ZLog_Open_Unguarded(logType, logLevel, moduleName) ==
    /\ lib = "z_check"
    /\ ZLog_OpenConfigure(logType, logLevel, moduleName)
    /\ UNCHANGED <<lib, frames, m_message, status, pc, executed, skipped>>

ZLog_Open(logType, logLevel, moduleName) ==
    /\ lib = "z_check"
    /\ IF NULL # m_ZLogFunc
       THEN /\ last' = Done("Open", FALSE, 0,
                            ZLogEvents(Z_WARN, <<Lit(OpenTwiceText_Z), Dir("s")>>,
                                       <<m_moduleName>>))
            /\ UNCHANGED <<m_moduleName, m_ZLogFunc, m_logLevel, m_logLevelOrig,
                           syslogOpen>>
       ELSE ZLog_OpenConfigure(logType, logLevel, moduleName)
    /\ UNCHANGED <<lib, frames, m_message, status, pc, executed, skipped>>

\* faulty variant: Close leaves the sink set
ZLog_Close_KeepsSink ==
    /\ lib = "z_check"
    /\ m_moduleName' = <<>>
    /\ syslogOpen' = IF m_ZLogFunc = "ZLog_Syslog" THEN FALSE ELSE syslogOpen
    /\ last' = Done("Close", FALSE, 0,
                    IF m_ZLogFunc = "ZLog_Syslog"
                    THEN <<Ev("closelog", "closelog", 0, <<>>)>> ELSE <<>>)
    /\ UNCHANGED <<lib, frames, m_ZLogFunc, m_logLevel, m_logLevelOrig, m_message, status,
                   pc, executed, skipped>>

\* faulty variant: Close without its closelog()
ZLog_Close_KeepsConnection ==
    /\ lib = "z_check"
    /\ m_ZLogFunc' = NULL
    /\ m_moduleName' = <<>>
    /\ last' = Done("Close", FALSE, 0, <<>>)
    /\ UNCHANGED <<lib, frames, m_logLevel, m_logLevelOrig, m_message, syslogOpen, status,
                   pc, executed, skipped>>

\* faulty variant: closelog() is called whatever the sink is
ZLog_Close_AlwaysCloselog ==
    /\ lib = "z_check"
    /\ m_ZLogFunc' = NULL
    /\ m_moduleName' = <<>>
    /\ syslogOpen' = FALSE
    /\ last' = Done("Close", FALSE, 0, <<Ev("closelog", "closelog", 0, <<>>)>>)
    /\ UNCHANGED <<lib, frames, m_logLevel, m_logLevelOrig, m_message, status, pc,
                   executed, skipped>>

\* faulty variant: Close also clears the thresholds
ZLog_Close_ClearsLevels ==
    /\ lib = "z_check"
    /\ m_ZLogFunc' = NULL
    /\ m_moduleName' = <<>>
    /\ m_logLevel' = 0
    /\ m_logLevelOrig' = 0
    /\ syslogOpen' = IF m_ZLogFunc = "ZLog_Syslog" THEN FALSE ELSE syslogOpen
    /\ last' = Done("Close", FALSE, 0,
                    IF m_ZLogFunc = "ZLog_Syslog"
                    THEN <<Ev("closelog", "closelog", 0, <<>>)>> ELSE <<>>)
    /\ UNCHANGED <<lib, frames, m_message, status, pc, executed, skipped>>

ZLog_Close ==
    /\ lib = "z_check"
    /\ m_ZLogFunc' = NULL
    /\ m_moduleName' = <<>>
    /\ syslogOpen' = IF m_ZLogFunc = "ZLog_Syslog" THEN FALSE ELSE syslogOpen
    /\ last' = Done("Close", FALSE, 0,
                    IF m_ZLogFunc = "ZLog_Syslog"
                    THEN <<Ev("closelog", "closelog", 0, <<>>)>> ELSE <<>>)
    /\ UNCHANGED <<lib, frames, m_logLevel, m_logLevelOrig, m_message, status, pc,
                   executed, skipped>>

\* faulty variant: the assignment goes to the wrong variable
ZLog_LevelSet_WrongVar(logLevel) ==
    /\ lib = "z_check"
    /\ m_logLevelOrig' = logLevel
    /\ last' = Done("LevelSet", FALSE, logLevel, <<>>)
    /\ UNCHANGED <<lib, frames, m_moduleName, m_ZLogFunc, m_logLevel, m_message,
                   syslogOpen, status, pc, executed, skipped>>

ZLog_LevelSet(logLevel) ==
    /\ lib = "z_check"
    /\ m_logLevel' = logLevel
    /\ last' = Done("LevelSet", FALSE, logLevel, <<>>)
    /\ UNCHANGED <<lib, frames, m_moduleName, m_ZLogFunc, m_logLevelOrig, m_message,
                   syslogOpen, status, pc, executed, skipped>>

\* faulty variant: the assignment is the wrong way round
ZLog_LevelReset_Reversed ==
    /\ lib = "z_check"
    /\ m_logLevelOrig' = m_logLevel
    /\ last' = Done("LevelReset", FALSE, 0, <<>>)
    /\ UNCHANGED <<lib, frames, m_moduleName, m_ZLogFunc, m_logLevel, m_message,
                   syslogOpen, status, pc, executed, skipped>>

ZLog_LevelReset ==
    /\ lib = "z_check"
    /\ m_logLevel' = m_logLevelOrig
    /\ last' = Done("LevelReset", FALSE, 0, <<>>)
    /\ UNCHANGED <<lib, frames, m_moduleName, m_ZLogFunc, m_logLevelOrig, m_message,
                   syslogOpen, status, pc, executed, skipped>>

\* the inputs of a log call: a format and its arguments; an argument list
\* that reads the caller's status variable is evaluated when the call is made
In_empty == [format |-> <<>>, args |-> <<>>, readsStatus |-> FALSE]
In_ok == [format |-> <<Lit(<<"o", "k">>)>>, args |-> <<>>, readsStatus |-> FALSE]
In_status == [format |-> <<Lit(<<"s", "=">>), Dir("d")>>, args |-> <<>>,
              readsStatus |-> TRUE]
In_bad == [format |-> <<Lit(<<"w", "=">>), Dir("ls")>>,
           args |-> <<<<InvalidWideChar>>>>, readsStatus |-> FALSE]
LogInputs == {In_empty, In_ok, In_status, In_bad}

ArgsOf(in) == IF in.readsStatus THEN <<status>> ELSE in.args

ZLog(level, in) ==
    /\ lib = "z_check"
    /\ last' = Done("Log", FALSE, 0,
                    ZLogEvents(level, in.format, ArgsOf(in)))
    /\ UNCHANGED <<lib, frames, m_moduleName, m_ZLogFunc, m_logLevel, m_logLevelOrig,
                   m_message, syslogOpen, status, pc, executed, skipped>>

----------------------------------------------------------------------------
(* zf_check.c *)

\* what ZfcLog leaves in the static buffer m_message
ZfcLogMessage(level, format, args) ==
    IF m_ZLogFunc # NULL /\ m_logLevel >= level
    THEN FormatMessage(format, args).buf
    ELSE m_message

\* ZfcLog(level, file, line, func, format, ...): the events of one call; the
\* sink reads the message from m_message
ZfcLogEvents(level, format, args) ==
    <<Ev("call", "ZfcLog", level, <<>>)>> \o
    (IF m_ZLogFunc = NULL
     THEN <<Ev("stderr", "fprintf", level, NoticeText_ZF)>>
     ELSE IF m_logLevel >= level
          THEN IF 0 < FormatMessage(format, args).rc
               THEN <<Ev("sink", m_ZLogFunc, level,
                         ZfcLogMessage(level, format, args))>>
               ELSE <<>>
          ELSE <<>>)

ZfcLog_Open_Body(logType, logLevel, moduleName) ==
    /\ lib = "zf_check"
    /\ IF m_ZLogFunc # NULL
       THEN /\ last' = Done("Open", FALSE, 0,
                            ZfcLogEvents(Z_WARN, <<Lit(OpenTwiceText_ZF), Dir("s")>>,
                                         <<m_moduleName>>))
            /\ m_message' = ZfcLogMessage(Z_WARN, <<Lit(OpenTwiceText_ZF), Dir("s")>>,
                                          <<m_moduleName>>)
            /\ UNCHANGED <<m_moduleName, m_ZLogFunc, m_logLevel, m_logLevelOrig,
                           syslogOpen>>
       ELSE /\ m_moduleName' = (IF moduleName # NULL_NAME THEN moduleName
                                ELSE DEFAULT_MODULE_NAME_ZF)
            /\ m_logLevel' = logLevel
            /\ m_logLevelOrig' = logLevel
            /\ m_message' = m_message
            /\ IF logType = LogTypeOf(lib, "Z_STDERR")
               THEN /\ m_ZLogFunc' = "ZfcLog_StdErr"
                    /\ syslogOpen' = syslogOpen
                    /\ last' = Done("Open", FALSE, 0, <<>>)
               ELSE IF logType = LogTypeOf(lib, "Z_STDOUT")
               THEN /\ m_ZLogFunc' = "ZfcLog_StdOut"
                    /\ syslogOpen' = syslogOpen
                    /\ last' = Done("Open", FALSE, 0, <<>>)
               ELSE IF logType = LogTypeOf(lib, "Z_ZFLOG")
               THEN /\ m_ZLogFunc' = "ZfcLog_ZfLog"
                    /\ syslogOpen' = syslogOpen
                    /\ last' = Done("Open", FALSE, 0, <<>>)
               ELSE IF logType = LogTypeOf(lib, "Z_SYSLOG")
               THEN /\ m_ZLogFunc' = "ZfcLog_Syslog"
                    /\ syslogOpen' = TRUE
                    /\ last' = Done("Open", FALSE, 0,
                                    <<Ev("openlog", "openlog", 0, m_moduleName')>>)
               ELSE /\ m_ZLogFunc' = "ZfcLog_StdErr"
                    /\ syslogOpen' = syslogOpen
                    /\ last' = Done("Open", FALSE, 0,
                                    <<Ev("stderr", "fprintf", logType, BadTypeText)>>)
    /\ UNCHANGED <<lib, frames>>

\* ZfcLog_Open called from a program whose position is not followed
ZfcLog_Open(logType, logLevel, moduleName) ==
    ZfcLog_Open_Body(logType, logLevel, moduleName) /\ UNCHANGED callerVars

ZfcLog_Close_Body ==
    /\ lib = "zf_check"
    /\ m_ZLogFunc' = NULL
    /\ m_moduleName' = NULL_NAME
    /\ m_message' = <<>>
    /\ syslogOpen' = IF m_ZLogFunc = "ZfcLog_Syslog" THEN FALSE ELSE syslogOpen
    /\ last' = Done("Close", FALSE, 0,
                    IF m_ZLogFunc = "ZfcLog_Syslog"
                    THEN <<Ev("closelog", "closelog", 0, <<>>)>> ELSE <<>>)
    /\ UNCHANGED <<lib, frames, m_logLevel, m_logLevelOrig>>

\* ZfcLog_Close called from a program whose position is not followed
ZfcLog_Close ==
    ZfcLog_Close_Body /\ UNCHANGED callerVars

\* faulty variant: the threshold is only assigned while the logger is open
ZfcLog_LevelSet_NeedsOpen(logLevel) ==
    /\ lib = "zf_check"
    /\ m_logLevel' = (IF m_ZLogFunc # NULL THEN logLevel ELSE m_logLevel)
    /\ last' = Done("LevelSet", FALSE, logLevel, <<>>)
    /\ UNCHANGED <<lib, frames, m_moduleName, m_ZLogFunc,
                   m_logLevelOrig, m_message, syslogOpen>>

ZfcLog_LevelSet_Body(logLevel) ==
    /\ lib = "zf_check"
    /\ m_logLevel' = logLevel
    /\ last' = Done("LevelSet", FALSE, logLevel, <<>>)
    /\ UNCHANGED <<lib, frames, m_moduleName, m_ZLogFunc,
                   m_logLevelOrig, m_message, syslogOpen>>

\* ZfcLog_LevelSet called from a program whose position is not followed
ZfcLog_LevelSet(logLevel) ==
    ZfcLog_LevelSet_Body(logLevel) /\ UNCHANGED callerVars

ZfcLog_LevelReset_Body ==
    /\ lib = "zf_check"
    /\ m_logLevel' = m_logLevelOrig
    /\ last' = Done("LevelReset", FALSE, 0, <<>>)
    /\ UNCHANGED <<lib, frames, m_moduleName, m_ZLogFunc,
                   m_logLevelOrig, m_message, syslogOpen>>

\* ZfcLog_LevelReset called from a program whose position is not followed
ZfcLog_LevelReset ==
    ZfcLog_LevelReset_Body /\ UNCHANGED callerVars

ZfcLog(level, in) ==
    /\ lib = "zf_check"
    /\ m_message' = ZfcLogMessage(level, in.format, ArgsOf(in))
    /\ last' = Done("Log", FALSE, 0,
                    ZfcLogEvents(level, in.format, ArgsOf(in)))
    /\ UNCHANGED <<lib, frames, m_moduleName, m_ZLogFunc, m_logLevel, m_logLevelOrig,
                   syslogOpen, status, pc, executed, skipped>>

----------------------------------------------------------------------------
(* The check macros.  Z_LOG / ZFC_LOG expand to a call of the linked       *)
(* library's log function.                                                 *)

Z_LOG(level, format, args) ==
    IF lib = "z_check" THEN ZLogEvents(level, format, args)
    ELSE ZfcLogEvents(level, format, args)

\* m_message after Z_LOG / ZFC_LOG (ZLog formats into a buffer of its own)
Z_LOG_Message(level, format, args) ==
    IF lib = "z_check" THEN m_message
    ELSE ZfcLogMessage(level, format, args)

(* The calling function:                                                   *)
(*     int status = 0;                                                     *)
(*     statement 1 .. statement BodyLen     positions 1..BodyLen           *)
(*     [return status;]                     position EndPos                *)
(*   label 1: ... label NumLabels:          positions LabelPos(j)          *)
(*     return status;                       position RetPos                *)
(* and `cleanup` is its last label.                                        *)
EndPos == BodyLen + 1
LabelPos(j) == BodyLen + 1 + j
RetPos == BodyLen + NumLabels + 2
CleanupLabel == NumLabels
Labels == 1..NumLabels

\* faulty variant: every label stands at the start of the function
Goto_FunctionStart(label) ==
    /\ pc' = 1
    /\ skipped' = skipped

\* goto label, from the statement at pc
Goto(label) ==
    /\ pc' = LabelPos(label)
    /\ skipped' = skipped \cup ((pc + 1)..(LabelPos(label) - 1))

\* faulty variant: the `if (condition)` is missing
Z_CHECK_EXT_GOTO_NoIf(op, condition, label, newval, level, in) ==
    /\ pc \in 1..BodyLen
    /\ executed' = executed \cup {pc}
    /\ last' = Done(op, condition, 0, Z_LOG(level, in.format, ArgsOf(in)))
    /\ m_message' = Z_LOG_Message(level, in.format, ArgsOf(in))
    /\ status' = newval
    /\ Goto(label)
    /\ UNCHANGED <<lib, frames, m_moduleName, m_ZLogFunc, m_logLevel, m_logLevelOrig,
                   syslogOpen>>

\* faulty variant: the assignment `setvar = newval` is missing
Z_CHECK_EXT_GOTO_NoAssign(op, condition, label, newval, level, in) ==
    /\ pc \in 1..BodyLen
    /\ executed' = executed \cup {pc}
    /\ IF condition
       THEN /\ last' = Done(op, condition, 0, Z_LOG(level, in.format, ArgsOf(in)))
            /\ m_message' = Z_LOG_Message(level, in.format, ArgsOf(in))
            /\ status' = status
            /\ Goto(label)
       ELSE /\ last' = Done(op, condition, 0, <<>>)
            /\ pc' = pc + 1
            /\ UNCHANGED <<m_message, status, skipped>>
    /\ UNCHANGED <<lib, frames, m_moduleName, m_ZLogFunc, m_logLevel, m_logLevelOrig,
                   syslogOpen>>

\* faulty variant: the `goto label` is missing
Z_CHECK_EXT_GOTO_NoGoto(op, condition, label, newval, level, in) ==
    /\ pc \in 1..BodyLen
    /\ executed' = executed \cup {pc}
    /\ pc' = pc + 1
    /\ IF condition
       THEN /\ last' = Done(op, condition, 0, Z_LOG(level, in.format, ArgsOf(in)))
            /\ m_message' = Z_LOG_Message(level, in.format, ArgsOf(in))
            /\ status' = newval
       ELSE /\ last' = Done(op, condition, 0, <<>>)
            /\ UNCHANGED <<m_message, status>>
    /\ UNCHANGED <<lib, frames, m_moduleName, m_ZLogFunc, m_logLevel, m_logLevelOrig,
                   syslogOpen, skipped>>

\* faulty variant: Z_CHECK_COMMON assigns before it logs
Z_CHECK_EXT_GOTO_AssignFirst(op, condition, label, newval, level, in) ==
    /\ pc \in 1..BodyLen
    /\ executed' = executed \cup {pc}
    /\ IF condition
       THEN /\ last' = Done(op, condition, 0,
                            Z_LOG(level, in.format,
                                  IF in.readsStatus THEN <<newval>> ELSE in.args))
            /\ m_message' = Z_LOG_Message(level, in.format,
                                          IF in.readsStatus THEN <<newval>> ELSE in.args)
            /\ status' = newval
            /\ Goto(label)
       ELSE /\ last' = Done(op, condition, 0, <<>>)
            /\ pc' = pc + 1
            /\ UNCHANGED <<m_message, status, skipped>>
    /\ UNCHANGED <<lib, frames, m_moduleName, m_ZLogFunc, m_logLevel, m_logLevelOrig,
                   syslogOpen>>

\* Z_CHECK_EXT_GOTO(condition, label, status, newval, level, ...), which is
\* ZF_CHECKG; Z_CHECK is the same with label = cleanup
Z_CHECK_EXT_GOTO(op, condition, label, newval, level, in) ==
    /\ pc \in 1..BodyLen
    /\ executed' = executed \cup {pc}
    /\ IF condition
       THEN /\ last' = Done(op, condition, 0,
                            Z_LOG(level, in.format, ArgsOf(in)))
            /\ m_message' = Z_LOG_Message(level, in.format, ArgsOf(in))
            /\ status' = newval
            /\ Goto(label)
       ELSE /\ last' = Done(op, condition, 0, <<>>)
            /\ pc' = pc + 1
            /\ UNCHANGED <<m_message, status, skipped>>
    /\ UNCHANGED <<lib, frames, m_moduleName, m_ZLogFunc, m_logLevel, m_logLevelOrig,
                   syslogOpen>>

Z_CHECK(condition, new_status, level, in) ==
    Z_CHECK_EXT_GOTO("Z_CHECK", condition, CleanupLabel, new_status, level, in)

Z_CHECKG(condition, label, new_status, level, in) ==
    Z_CHECK_EXT_GOTO("Z_CHECKG", condition, label, new_status, level, in)

\* faulty variant: a `goto cleanup` as in Z_CHECK_EXT_GOTO
Z_CHECK_EXT_CONT_WithGoto(condition, newval, level, in) ==
    /\ pc \in 1..BodyLen
    /\ executed' = executed \cup {pc}
    /\ IF condition
       THEN /\ last' = Done("Z_CHECKC", condition, 0,
                            Z_LOG(level, in.format, ArgsOf(in)))
            /\ m_message' = Z_LOG_Message(level, in.format, ArgsOf(in))
            /\ status' = newval
            /\ Goto(CleanupLabel)
       ELSE /\ last' = Done("Z_CHECKC", condition, 0, <<>>)
            /\ pc' = pc + 1
            /\ UNCHANGED <<m_message, status, skipped>>
    /\ UNCHANGED <<lib, frames, m_moduleName, m_ZLogFunc, m_logLevel, m_logLevelOrig,
                   syslogOpen>>

\* Z_CHECK_EXT_CONT(condition, status, newval, level, ...), which is ZF_CHECKC
Z_CHECK_EXT_CONT(condition, newval, level, in) ==
    /\ pc \in 1..BodyLen
    /\ executed' = executed \cup {pc}
    /\ pc' = pc + 1
    /\ IF condition
       THEN /\ last' = Done("Z_CHECKC", condition, 0,
                            Z_LOG(level, in.format, ArgsOf(in)))
            /\ m_message' = Z_LOG_Message(level, in.format, ArgsOf(in))
            /\ status' = newval
       ELSE /\ last' = Done("Z_CHECKC", condition, 0, <<>>)
            /\ UNCHANGED <<m_message, status>>
    /\ UNCHANGED <<lib, frames, m_moduleName, m_ZLogFunc, m_logLevel, m_logLevelOrig,
                   syslogOpen, skipped>>

\* faulty variant: the body without its `if (condition)`
Z_LOG_IF_Unconditional(condition, level, in) ==
    /\ pc \in 1..BodyLen
    /\ executed' = executed \cup {pc}
    /\ pc' = pc + 1
    /\ last' = Done("Z_LOG_IF", condition, 0, Z_LOG(level, in.format, ArgsOf(in)))
    /\ m_message' = Z_LOG_Message(level, in.format, ArgsOf(in))
    /\ UNCHANGED <<lib, frames, m_moduleName, m_ZLogFunc, m_logLevel, m_logLevelOrig,
                   syslogOpen, status, skipped>>

\* Z_LOG_IF(condition, level, ...), which is ZFC_LOG_IF
Z_LOG_IF(condition, level, in) ==
    /\ pc \in 1..BodyLen
    /\ executed' = executed \cup {pc}
    /\ pc' = pc + 1
    /\ IF condition
       THEN /\ last' = Done("Z_LOG_IF", condition, 0,
                            Z_LOG(level, in.format, ArgsOf(in)))
            /\ m_message' = Z_LOG_Message(level, in.format, ArgsOf(in))
       ELSE /\ last' = Done("Z_LOG_IF", condition, 0, <<>>)
            /\ UNCHANGED m_message
    /\ UNCHANGED <<lib, frames, m_moduleName, m_ZLogFunc, m_logLevel, m_logLevelOrig,
                   syslogOpen, status, skipped>>

\* the end of the body: `return status;` before the labels (testExampleCheckGs)
ReturnBeforeLabels ==
    /\ pc = EndPos
    /\ pc' = RetPos
    /\ last' = Done("return", FALSE, 0, <<>>)
    /\ UNCHANGED <<lib, frames, m_moduleName, m_ZLogFunc, m_logLevel, m_logLevelOrig,
                   m_message, syslogOpen, status, executed, skipped>>

\* the end of the body: control falls into the first label (main)
FallIntoLabels ==
    /\ pc = EndPos
    /\ pc' = LabelPos(1)
    /\ last' = Done("fall", FALSE, 0, <<>>)
    /\ UNCHANGED <<lib, frames, m_moduleName, m_ZLogFunc, m_logLevel, m_logLevelOrig,
                   m_message, syslogOpen, status, executed, skipped>>

\* faulty variant: the code under each label ends with a return
LabelCode_Returns ==
    /\ pc \in {LabelPos(j) : j \in Labels}
    /\ executed' = executed \cup {pc}
    /\ pc' = RetPos
    /\ last' = Done("label", FALSE, 0, <<>>)
    /\ UNCHANGED <<lib, frames, m_moduleName, m_ZLogFunc, m_logLevel, m_logLevelOrig,
                   m_message, syslogOpen, status, skipped>>

\* the code under a label runs and control falls to the next label, or to
\* the final `return status;`
LabelCode ==
    /\ pc \in {LabelPos(j) : j \in Labels}
    /\ executed' = executed \cup {pc}
    /\ pc' = pc + 1
    /\ last' = Done("label", FALSE, 0, <<>>)
    /\ UNCHANGED <<lib, frames, m_moduleName, m_ZLogFunc, m_logLevel, m_logLevelOrig,
                   m_message, syslogOpen, status, skipped>>

\* the function has returned; the program calls the next function
CallFunction ==
    /\ pc = RetPos
    /\ pc' = 1
    /\ status' = 0
    /\ executed' = {}
    /\ skipped' = {}
    /\ last' = Done("call", FALSE, 0, <<>>)
    /\ UNCHANGED <<lib, frames, m_moduleName, m_ZLogFunc, m_logLevel, m_logLevelOrig,
                   m_message, syslogOpen>>

----------------------------------------------------------------------------
(* The logger under any sequence of calls of its five operations.          *)
(* All file-scope data of z_check.c / zf_check.c has static storage, so    *)
(* the thresholds start at 0 and the sink at NULL.                         *)

\* The argument lists of Open.  Open on an open logger reads none of its
\* arguments (z_check.c:105-107, zf_check.c:117-119), so there two lists that
\* differ in every argument stand for all of them.
OpenArgs ==
    IF m_ZLogFunc = NULL
    THEN [logType : LogTypeArgs, logLevel : LevelArgs, moduleName : ModuleNameArgs]
    ELSE {[logType |-> LogTypeOf(lib, "Z_STDOUT"), logLevel |-> Z_EMERG,
           moduleName |-> NULL_NAME],
          [logType |-> LogTypeOf(lib, "Z_SYSLOG"), logLevel |-> Z_DEBUG,
           moduleName |-> Str_svc]}

Init ==
    /\ lib \in {"z_check", "zf_check"}
    /\ m_moduleName = (IF lib = "z_check" THEN <<>> ELSE NULL_NAME)
    /\ m_ZLogFunc = NULL
    /\ m_logLevel = 0
    /\ m_logLevelOrig = 0
    /\ m_message = <<>>
    /\ syslogOpen = FALSE
    /\ status = 0
    /\ pc = 1
    /\ executed = {}
    /\ skipped = {}
    /\ last = NoneDone
    /\ frames = NoFrames

Next ==
    \/ \E a \in OpenArgs : ZLog_Open(a.logType, a.logLevel, a.moduleName)
    \/ ZLog_Close
    \/ \E l \in LevelArgs : ZLog_LevelSet(l)
    \/ ZLog_LevelReset
    \/ \E l \in LevelArgs, in \in LogInputs : ZLog(l, in)
    \/ \E a \in OpenArgs : ZfcLog_Open(a.logType, a.logLevel, a.moduleName)
    \/ ZfcLog_Close
    \/ \E l \in LevelArgs : ZfcLog_LevelSet(l)
    \/ ZfcLog_LevelReset
    \/ \E l \in LevelArgs, in \in LogInputs : ZfcLog(l, in)

Spec == Init /\ [][Next]_vars

----------------------------------------------------------------------------
(* A function that uses the check macros, called again and again.  The     *)
(* logger is in a state left by Open(Z_STDOUT, Z_INFO, "svc"), a LevelSet  *)
(* and possibly a Close, as in main() and testExampleLogs() of example.c.  *)

InitCheck ==
    /\ lib \in {"z_check", "zf_check"}
    /\ m_ZLogFunc \in {NULL, IF lib = "z_check" THEN "ZLog_StdOut" ELSE "ZfcLog_StdOut"}
    /\ m_moduleName = (IF m_ZLogFunc # NULL THEN Str_svc
                       ELSE IF lib = "z_check" THEN <<>> ELSE NULL_NAME)
    /\ m_logLevel \in LevelArgs
    /\ m_logLevelOrig = Z_INFO
    /\ m_message = <<>>
    /\ syslogOpen = FALSE
    /\ status = 0
    /\ pc = 1
    /\ executed = {}
    /\ skipped = {}
    /\ last = NoneDone
    /\ frames = NoFrames

NextCheck ==
    \/ \E c \in BOOLEAN, s \in StatusArgs, l \in LevelArgs, in \in LogInputs :
          Z_CHECK(c, s, l, in)
    \/ \E c \in BOOLEAN, g \in Labels, s \in StatusArgs, l \in LevelArgs,
          in \in LogInputs : Z_CHECKG(c, g, s, l, in)
    \/ \E c \in BOOLEAN, s \in StatusArgs, l \in LevelArgs, in \in LogInputs :
          Z_CHECK_EXT_CONT(c, s, l, in)
    \/ \E c \in BOOLEAN, l \in LevelArgs, in \in LogInputs :
          Z_LOG_IF(c, l, in)
    \/ ReturnBeforeLabels
    \/ FallIntoLabels
    \/ LabelCode
    \/ CallFunction

SpecCheck == InitCheck /\ [][NextCheck]_vars

----------------------------------------------------------------------------
(* Properties *)

\* the message a log call is made with has at least one character: its
\* expansion is not empty, or it cannot be formatted at all
NonEmptyResult(in) ==
    FormatFails(in.format, ArgsOf(in)) \/ Expand(in.format, ArgsOf(in)) # <<>>

LegalLevels == Z_EMERG..Z_DEBUG

DoubleOpen == last.op = "Open" /\ LogCalls(last.events) # <<>>

\* C1 (as amended): a Log call on an opened logger invokes the sink exactly
\* once, with a non-empty message, when level <= currentThreshold and the
\* formatted message has at least one character; it does not invoke the sink
\* when level > currentThreshold or the formatted message is empty.
C1_LogGate ==
    [][(last'.op = "Log" /\ m_ZLogFunc # NULL) =>
          LET l == LogCalls(last'.events)[1].level
              sinks == SinkCalls(last'.events)
          IN  \A in \in LogInputs :
                 (ZLog(l, in) \/ ZfcLog(l, in)) =>
                    IF l <= m_logLevel /\ NonEmptyResult(in)
                    THEN /\ Len(sinks) = 1
                         /\ sinks[1].text # <<>>
                         /\ sinks[1].level = l
                         /\ sinks[1].fn = m_ZLogFunc
                    ELSE sinks = <<>>]_vars

C1_Witness ==
    /\ last.op = "Log"
    /\ m_ZLogFunc # NULL
    /\ Len(SinkCalls(last.events)) = 1
    /\ SinkCalls(last.events)[1].level <= m_logLevel

\* C1 as claimed: every Log call on an opened logger with level <=
\* currentThreshold invokes the sink exactly once with a non-empty message,
\* and with level > currentThreshold does not invoke it.
C1_Original ==
    (last.op = "Log" /\ m_ZLogFunc # NULL) =>
        LET sinks == SinkCalls(last.events)
        IN  IF LogCalls(last.events)[1].level <= m_logLevel
            THEN Len(sinks) = 1 /\ sinks[1].text # <<>>
            ELSE sinks = <<>>

\* C2: a Log call made while the sink is unset invokes no sink, writes exactly
\* one fixed error notice to stderr and leaves the logger state unchanged.
C2_LogBeforeOpen ==
    [][(last'.op = "Log" /\ m_ZLogFunc = NULL) =>
          /\ SinkCalls(last'.events) = <<>>
          /\ Len(StderrLines(last'.events)) = 1
          /\ StderrLines(last'.events)[1].text =
                (IF lib = "z_check" THEN NoticeText_Z ELSE NoticeText_ZF)
          /\ UNCHANGED <<m_moduleName, m_ZLogFunc, m_logLevel, m_logLevelOrig,
                         m_message, syslogOpen>>]_vars

\* a Log call on a logger that was opened at Z_INFO and closed again
C2_Witness ==
    /\ last.op = "Log"
    /\ m_ZLogFunc = NULL
    /\ m_logLevelOrig = Z_INFO
    /\ Len(StderrLines(last.events)) = 1

\* C3: Open on an already-open logger leaves moduleName, sink,
\* currentThreshold and originalThreshold as they were and opens no
\* connection to the external log service.
C3_OpenTwiceKeepsState ==
    [][(last'.op = "Open" /\ m_ZLogFunc # NULL) =>
          /\ UNCHANGED <<m_moduleName, m_ZLogFunc, m_logLevel, m_logLevelOrig>>
          /\ SelectKind(last'.events, "openlog") = <<>>
          /\ syslogOpen' = syslogOpen]_vars

\* a second Open on a logger whose threshold a LevelSet has moved
C3_Witness ==
    /\ DoubleOpen
    /\ m_moduleName = Str_svc
    /\ m_logLevel # m_logLevelOrig

\* C4 (as amended): Open on an already-open logger makes one Log call at
\* WARNING; it emits exactly one warning when currentThreshold >= Warning and
\* none when currentThreshold is below Warning; it writes nothing to stderr.
C4_OpenTwiceWarning ==
    DoubleOpen =>
        /\ Len(LogCalls(last.events)) = 1
        /\ LogCalls(last.events)[1].level = Z_WARN
        /\ StderrLines(last.events) = <<>>
        /\ IF m_logLevel >= Z_WARN
           THEN /\ Len(SinkCalls(last.events)) = 1
                /\ SinkCalls(last.events)[1].level = Z_WARN
                /\ SinkCalls(last.events)[1].fn = m_ZLogFunc
           ELSE SinkCalls(last.events) = <<>>

C4_Witness ==
    /\ DoubleOpen
    /\ m_logLevel = Z_WARN
    /\ Len(SinkCalls(last.events)) = 1

\* C4 as claimed: Open on an already-open logger emits exactly one warning
\* whatever the current threshold is.
C4_Original == DoubleOpen => Len(SinkCalls(last.events)) = 1

\* C5: Check(false, ...) makes no Log call, does not change status and does
\* not transfer control: execution continues at the next statement.
C5_CheckFalse ==
    [][(last'.op = "Z_CHECK" /\ ~last'.cond) =>
          /\ last'.events = <<>>
          /\ status' = status
          /\ pc' = pc + 1
          /\ skipped' = skipped
          /\ m_message' = m_message]_vars

C5_Witness ==
    /\ last.op = "Z_CHECK"
    /\ ~last.cond
    /\ pc = 2
    /\ skipped = {}

CheckTaken == last.op = "Z_CHECK" /\ last.cond

\* C6 (as amended): Check(true, newStatus, level, msg) always sets status to
\* newStatus, always transfers control to the cleanup label and makes exactly
\* one Log call at `level`; that call is a log emission (one invocation of the
\* sink) when the logger is open, level <= currentThreshold and the formatted
\* message is not empty, and there is no emission otherwise.
C6_CheckTrue ==
    [][(last'.op = "Z_CHECK" /\ last'.cond) =>
          /\ pc' = LabelPos(CleanupLabel)
          /\ Len(LogCalls(last'.events)) = 1
          /\ \A s \in StatusArgs, in \in LogInputs :
                Z_CHECK(TRUE, s, LogCalls(last'.events)[1].level, in) =>
                   /\ status' = s
                   /\ Len(SinkCalls(last'.events)) =
                         (IF /\ m_ZLogFunc # NULL
                             /\ LogCalls(last'.events)[1].level <= m_logLevel
                             /\ NonEmptyResult(in)
                          THEN 1 ELSE 0)]_vars

\* a Check that fires at a level the threshold suppresses
C6_Witness ==
    /\ CheckTaken
    /\ m_ZLogFunc # NULL
    /\ status = 0 - MaxStatus
    /\ pc = LabelPos(CleanupLabel)
    /\ LogCalls(last.events)[1].level > m_logLevel
    /\ SinkCalls(last.events) = <<>>

\* C6 as claimed: Check(true, newStatus, level, msg) sets status to newStatus,
\* transfers control to the cleanup label and produces exactly one log
\* emission, for every level and every logger state.
C6_Original ==
    [][(last'.op = "Z_CHECK" /\ last'.cond) =>
          /\ pc' = LabelPos(CleanupLabel)
          /\ Len(SinkCalls(last'.events)) = 1
          /\ \A s \in StatusArgs, in \in LogInputs :
                Z_CHECK(TRUE, s, LogCalls(last'.events)[1].level, in) =>
                   status' = s]_vars

\* C7 (as amended): Check(true, -1, Error, msg) sets status to -1, makes one
\* Log call at ERROR and takes control to the cleanup label without executing
\* any statement between the call and that label; the ERROR line is logged
\* when the logger is open, currentThreshold >= Error and msg is not empty.
C7_CheckErrorScenario ==
    /\ [](executed \cap skipped = {})
    /\ [][(last'.op = "Z_CHECK" /\ last'.cond) =>
             \A in \in LogInputs :
                Z_CHECK(TRUE, -1, Z_ERR, in) =>
                   /\ status' = -1
                   /\ pc' = LabelPos(CleanupLabel)
                   /\ executed' = executed \cup {pc}
                   /\ skipped' = skipped \cup ((pc + 1)..(LabelPos(CleanupLabel) - 1))
                   /\ Len(LogCalls(last'.events)) = 1
                   /\ LogCalls(last'.events)[1].level = Z_ERR
                   /\ (m_ZLogFunc # NULL /\ m_logLevel >= Z_ERR /\ NonEmptyResult(in)) =>
                         /\ Len(SinkCalls(last'.events)) = 1
                         /\ SinkCalls(last'.events)[1].level = Z_ERR]_vars

\* Check(true, -1, Error, msg) as the first statement: the ERROR line is
\* logged and the second statement and the first label are jumped over
C7_Witness ==
    /\ CheckTaken
    /\ status = -1
    /\ pc = LabelPos(CleanupLabel)
    /\ executed = {1}
    /\ 2 \in skipped
    /\ Len(SinkCalls(last.events)) = 1
    /\ SinkCalls(last.events)[1].level = Z_ERR

\* C7 as claimed: whenever a function runs Check(true, -1, Error, msg),
\* status becomes -1, a line at ERROR severity is logged and control reaches
\* the cleanup label.
C7_Original ==
    [][(last'.op = "Z_CHECK" /\ last'.cond) =>
          \A in \in LogInputs :
             Z_CHECK(TRUE, -1, Z_ERR, in) =>
                /\ status' = -1
                /\ pc' = LabelPos(CleanupLabel)
                /\ Len(SinkCalls(last'.events)) = 1
                /\ SinkCalls(last'.events)[1].level = Z_ERR]_vars

\* C8: CheckContinue(true, newStatus, level, msg) sets status to newStatus,
\* makes its Log call and transfers no control: the next statement is the one
\* after the call.  CheckContinue(false, ...) changes nothing.
C8_CheckContinue ==
    [][last'.op = "Z_CHECKC" =>
          /\ pc' = pc + 1
          /\ skipped' = skipped
          /\ executed' = executed \cup {pc}
          /\ UNCHANGED <<m_moduleName, m_ZLogFunc, m_logLevel, m_logLevelOrig>>
          /\ IF last'.cond
             THEN /\ Len(LogCalls(last'.events)) = 1
                  /\ \A s \in StatusArgs, in \in LogInputs :
                        Z_CHECK_EXT_CONT(TRUE, s, LogCalls(last'.events)[1].level, in)
                           => status' = s
             ELSE /\ last'.events = <<>>
                  /\ status' = status
                  /\ m_message' = m_message]_vars

C8_Witness ==
    /\ last.op = "Z_CHECKC"
    /\ last.cond
    /\ status = -1
    /\ pc = 2
    /\ skipped = {}
    /\ Len(LogCalls(last.events)) = 1

\* C9: on an opened logger, LevelSet(L) followed immediately by Log at level
\* L with a non-empty message invokes the sink exactly once, for every legal
\* L and whatever the threshold was before.
C9_LevelSetThenLog ==
    [][(/\ last.op = "LevelSet"
        /\ last'.op = "Log"
        /\ m_ZLogFunc # NULL
        /\ last.arg \in LegalLevels
        /\ LogCalls(last'.events)[1].level = last.arg) =>
          \A in \in LogInputs :
             (NonEmptyResult(in) /\ (ZLog(last.arg, in) \/ ZfcLog(last.arg, in))) =>
                /\ Len(SinkCalls(last'.events)) = 1
                /\ SinkCalls(last'.events)[1].level = last.arg
                /\ SinkCalls(last'.events)[1].text # <<>>]_vars

\* a Log at the level a LevelSet has just raised the threshold to
C9_Witness ==
    /\ last.op = "Log"
    /\ last.prev = "LevelSet"
    /\ m_ZLogFunc # NULL
    /\ m_logLevel > m_logLevelOrig
    /\ Len(SinkCalls(last.events)) = 1
    /\ SinkCalls(last.events)[1].level = m_logLevel

\* C10 (as amended): LevelSet(L); LevelReset() leaves currentThreshold equal
\* to originalThreshold, the level Open set; that is the value from before
\* the LevelSet when the threshold then stood at originalThreshold, and not
\* when an earlier LevelSet had moved it.  Nothing else changes.
C10_LevelSetThenReset ==
    [][(last.op = "LevelSet" /\ last'.op = "LevelReset") =>
          /\ m_logLevel' = m_logLevelOrig
          /\ (last.preLevel = m_logLevelOrig => m_logLevel' = last.preLevel)
          /\ UNCHANGED <<m_moduleName, m_ZLogFunc, m_logLevelOrig>>]_vars

C10_Witness ==
    /\ last.op = "LevelReset"
    /\ last.prev = "LevelSet"
    /\ m_ZLogFunc # NULL
    /\ m_logLevel = m_logLevelOrig

\* C10 as claimed: on an opened logger LevelSet(L); LevelReset() leaves
\* currentThreshold equal to the value it had immediately before the LevelSet.
C10_Original ==
    [][(last.op = "LevelSet" /\ last'.op = "LevelReset" /\ m_ZLogFunc # NULL) =>
          m_logLevel' = last.preLevel]_vars

----------------------------------------------------------------------------
(* The logger under Open, LevelSet, LevelReset and Log calls whose formats *)
(* are of every kind: the formats of LogInputs, the "x=%d" of               *)
(* testExampleLogs-like callers, and expansions that fill the message       *)
(* buffer exactly and that overrun it.                                      *)

Overrun == 2            \* characters by which the longest expansion overruns

In_x5 == [format |-> <<Lit(<<"x", "=">>), Dir("d")>>, args |-> <<5>>,
          readsStatus |-> FALSE]

\* a string argument of n characters, no two neighbours alike
LongArg(n) == [i \in 1..n |-> Digits[(i % 10) + 1]]

\* "p=%s" with an argument that makes the expansion MESSAGE_MAX_LEN - 1 long
In_fit == [format |-> <<Lit(<<"p", "=">>), Dir("s")>>,
           args |-> <<LongArg(MESSAGE_MAX_LEN - 3)>>, readsStatus |-> FALSE]

\* "q=%s" with an argument that makes the expansion longer than the buffer
In_long == [format |-> <<Lit(<<"q", "=">>), Dir("s")>>,
            args |-> <<LongArg(MESSAGE_MAX_LEN - 3 + Overrun)>>,
            readsStatus |-> FALSE]

\* a format vsnprintf fails on, so long that the fallback message overruns
\* the buffer
In_badlong == [format |-> <<Lit(LongArg(MESSAGE_MAX_LEN - 27)), Dir("ls")>>,
               args |-> <<<<InvalidWideChar>>>>, readsStatus |-> FALSE]

\* "%s" with the empty string: an expansion of zero characters
In_emptyArg == [format |-> <<Dir("s")>>, args |-> <<<<>>>>, readsStatus |-> FALSE]
FormatInputs == LogInputs \cup {In_x5, In_fit, In_long, In_badlong, In_emptyArg}

\* Open as main() of example.c calls it, with every log type
OpenArgsFormat == [logType : LogTypeArgs, logLevel : {Z_INFO}, moduleName : {Str_svc}]

NextFormat ==
    \/ \E a \in OpenArgsFormat : ZLog_Open(a.logType, a.logLevel, a.moduleName)
    \/ \E l \in LevelArgs : ZLog_LevelSet(l)
    \/ ZLog_LevelReset
    \/ \E l \in LevelArgs, in \in FormatInputs : ZLog(l, in)
    \/ \E a \in OpenArgsFormat : ZfcLog_Open(a.logType, a.logLevel, a.moduleName)
    \/ \E l \in LevelArgs : ZfcLog_LevelSet(l)
    \/ ZfcLog_LevelReset
    \/ \E l \in LevelArgs, in \in FormatInputs : ZfcLog(l, in)

SpecFormat == Init /\ [][NextFormat]_vars

\* the logger is open as Open(ConsoleOut, Info, name) left it, whatever
\* LevelSet and LevelReset calls followed
OpenedStdOutInfo ==
    /\ m_ZLogFunc \in {"ZLog_StdOut", "ZfcLog_StdOut"}
    /\ m_logLevelOrig = Z_INFO

Text_x5 == <<"x", "=", "5">>

\* C11: with the logger opened as Open(ConsoleOut, Info, name), a Log(Debug)
\* directly after the Open produces no output; directly after LevelSet(Debug),
\* Log(Debug, "x=%d", 5) produces exactly one output line, on stdout, at DEBUG,
\* whose message is "x=5"; directly after LevelReset(), Log(Debug) produces no
\* output.
C11_LevelScenario ==
    [][(/\ last'.op = "Log"
        /\ OpenedStdOutInfo
        /\ LogCalls(last'.events)[1].level = Z_DEBUG) =>
          /\ (last.op = "Open" /\ ~DoubleOpen) => SinkCalls(last'.events) = <<>>
          /\ last.op = "LevelReset" => SinkCalls(last'.events) = <<>>
          /\ (/\ last.op = "LevelSet"
              /\ last.arg = Z_DEBUG
              /\ (ZLog(Z_DEBUG, In_x5) \/ ZfcLog(Z_DEBUG, In_x5))) =>
                 /\ Len(SinkCalls(last'.events)) = 1
                 /\ SinkCalls(last'.events)[1].fn = m_ZLogFunc
                 /\ SinkCalls(last'.events)[1].level = Z_DEBUG
                 /\ SinkCalls(last'.events)[1].text = Text_x5
                 /\ StderrLines(last'.events) = <<>>]_vars

\* the Log(Debug, "x=%d", 5) that follows LevelSet(Debug)
C11_Witness ==
    /\ last.op = "Log"
    /\ last.prev = "LevelSet"
    /\ OpenedStdOutInfo
    /\ m_logLevel = Z_DEBUG
    /\ Len(SinkCalls(last.events)) = 1
    /\ SinkCalls(last.events)[1].level = Z_DEBUG
    /\ SinkCalls(last.events)[1].text = Text_x5

\* the lines of stderr that warn of an invalid log level
BadLevelLines(events) ==
    SelectSeq(events, LAMBDA e : e.kind = "stderr" /\ e.text = BadLevelText)

\* the step is an Open, on a logger that is not open, with initial level l
FreshOpenAt(l) ==
    \E a \in OpenArgs :
        /\ a.logLevel = l
        /\ \/ ZLog_Open(a.logType, a.logLevel, a.moduleName)
           \/ ZfcLog_Open(a.logType, a.logLevel, a.moduleName)

BadTypeLines(events) ==
    SelectSeq(events, LAMBDA e : e.kind = "stderr" /\ e.text = BadTypeText)

\* the step is an Open, on a logger that is not open, with log type t
FreshOpenOf(t) ==
    \E a \in OpenArgs :
        /\ a.logType = t
        /\ \/ ZLog_Open(a.logType, a.logLevel, a.moduleName)
           \/ ZfcLog_Open(a.logType, a.logLevel, a.moduleName)

StdOutSinks == {"ZLog_StdOut", "ZfcLog_StdOut"}
StdErrSinks == {"ZLog_StdErr", "ZfcLog_StdErr"}
SyslogSinks == {"ZLog_Syslog", "ZfcLog_Syslog"}

FreshOpenNamed(n) ==
    \E a \in OpenArgs :
        /\ a.moduleName = n
        /\ \/ ZLog_Open(a.logType, a.logLevel, a.moduleName)
           \/ ZfcLog_Open(a.logType, a.logLevel, a.moduleName)

DefaultModuleName ==
    IF lib = "z_check" THEN DEFAULT_MODULE_NAME_Z ELSE DEFAULT_MODULE_NAME_ZF

ClearedModuleName == IF lib = "z_check" THEN <<>> ELSE NULL_NAME

ClosedLogger == m_ZLogFunc = NULL /\ m_moduleName = ClearedModuleName

\* C15: Close leaves the sink unset and the module name cleared from every
\* state, a never-opened and an already-closed logger included, where it
\* changes nothing of the logger; it releases the connection to the external
\* service if and only if the external-service sink was the active sink.
C15_Close ==
    [][last'.op = "Close" =>
          /\ ClosedLogger'
          /\ Len(SelectKind(last'.events, "closelog")) =
                (IF m_ZLogFunc \in SyslogSinks THEN 1 ELSE 0)
          /\ ~syslogOpen'
          /\ last'.events = SelectKind(last'.events, "closelog")
          /\ (m_ZLogFunc = NULL =>
                 UNCHANGED <<m_moduleName, m_ZLogFunc, m_logLevel, m_logLevelOrig,
                             m_message, syslogOpen>>)]_vars

\* the Close of a logger whose sink was the external service
C15_Witness ==
    /\ last.op = "Close"
    /\ ClosedLogger
    /\ Len(SelectKind(last.events, "closelog")) = 1
    /\ ~syslogOpen

\* "(failed to format message) w=%ls"
Text_failed_bad ==
    <<"(", "f", "a", "i", "l", "e", "d", " ", "t", "o", " ", "f", "o", "r", "m",
      "a", "t", " ", "m", "e", "s", "s", "a", "g", "e", ")", " ", "w", "=", "%",
      "l", "s">>

\* the first n characters of s, all of s if it has no more
FirstChars(s, n) == IF Len(s) <= n THEN s ELSE SubSeq(s, 1, n)

FailingInputs == {in \in FormatInputs : FormatFails(in.format, ArgsOf(in))}

\* C16 (as amended): when the formatter reports failure for a Log call that
\* passes the threshold, the sink is invoked exactly once with the
\* "(failed to format message) " marker followed by the raw format string,
\* cut to its first MESSAGE_MAX_LEN - 1 characters if it is longer.
C16_FormatFailure ==
    [][(/\ last'.op = "Log"
        /\ m_ZLogFunc # NULL
        /\ LogCalls(last'.events)[1].level <= m_logLevel) =>
          \A in \in FailingInputs :
             (\/ ZLog(LogCalls(last'.events)[1].level, in)
              \/ ZfcLog(LogCalls(last'.events)[1].level, in)) =>
                /\ Len(SinkCalls(last'.events)) = 1
                /\ SinkCalls(last'.events)[1].fn = m_ZLogFunc
                /\ SinkCalls(last'.events)[1].text =
                      FirstChars(FailMarker \o RawText(in.format), MESSAGE_MAX_LEN - 1)
                /\ in = In_bad => SinkCalls(last'.events)[1].text = Text_failed_bad]_vars

\* a Log call whose format "w=%ls" could not be formatted has been dispatched
C16_Witness ==
    /\ last.op = "Log"
    /\ Len(SinkCalls(last.events)) = 1
    /\ SinkCalls(last.events)[1].text = Text_failed_bad

\* C16 as claimed: when the formatter reports failure for a Log call that
\* passes the threshold, the sink is invoked exactly once with a message
\* consisting of the marker followed by the raw format string.
C16_Original ==
    [][(/\ last'.op = "Log"
        /\ m_ZLogFunc # NULL
        /\ LogCalls(last'.events)[1].level <= m_logLevel) =>
          \A in \in FailingInputs :
             (\/ ZLog(LogCalls(last'.events)[1].level, in)
              \/ ZfcLog(LogCalls(last'.events)[1].level, in)) =>
                /\ Len(SinkCalls(last'.events)) = 1
                /\ SinkCalls(last'.events)[1].text = FailMarker \o RawText(in.format)]_vars

\* the inputs that can be formatted and expand to more than fits the buffer
OverlongInputs ==
    {in \in FormatInputs :
        /\ ~FormatFails(in.format, ArgsOf(in))
        /\ Len(Expand(in.format, ArgsOf(in))) > MESSAGE_MAX_LEN - 1}

\* "q=" and the argument of In_long
Text_long == <<"q", "=">> \o LongArg(MESSAGE_MAX_LEN - 3 + Overrun)

\* C17: a Log call that passes the threshold and whose expansion is longer
\* than the message buffer invokes the sink exactly once, with the first
\* MESSAGE_MAX_LEN - 1 characters of the expansion; an expansion of exactly
\* MESSAGE_MAX_LEN - 1 characters arrives whole; and no message handed to a
\* sink is longer than MESSAGE_MAX_LEN - 1.
C17_Truncation ==
    /\ [](\A i \in DOMAIN last.events :
             last.events[i].kind = "sink" =>
                Len(last.events[i].text) <= MESSAGE_MAX_LEN - 1)
    /\ [][(/\ last'.op = "Log"
           /\ m_ZLogFunc # NULL
           /\ LogCalls(last'.events)[1].level <= m_logLevel) =>
             /\ \A in \in OverlongInputs :
                   (\/ ZLog(LogCalls(last'.events)[1].level, in)
                    \/ ZfcLog(LogCalls(last'.events)[1].level, in)) =>
                      /\ Len(SinkCalls(last'.events)) = 1
                      /\ SinkCalls(last'.events)[1].text =
                            FirstChars(Expand(in.format, ArgsOf(in)), MESSAGE_MAX_LEN - 1)
                      /\ in = In_long =>
                            SinkCalls(last'.events)[1].text =
                               SubSeq(Text_long, 1, MESSAGE_MAX_LEN - 1)
             /\ (\/ ZLog(LogCalls(last'.events)[1].level, In_fit)
                 \/ ZfcLog(LogCalls(last'.events)[1].level, In_fit)) =>
                   /\ Len(SinkCalls(last'.events)) = 1
                   /\ SinkCalls(last'.events)[1].text =
                         <<"p", "=">> \o LongArg(MESSAGE_MAX_LEN - 3)]_vars

\* the overlong expansion of In_long has been dispatched, cut short
C17_Witness ==
    /\ last.op = "Log"
    /\ Len(SinkCalls(last.events)) = 1
    /\ Len(SinkCalls(last.events)[1].text) = MESSAGE_MAX_LEN - 1
    /\ SinkCalls(last.events)[1].text[1] = "q"
    /\ Len(Text_long) > MESSAGE_MAX_LEN - 1

----------------------------------------------------------------------------
(* The debug-only macros of z_check.h.  NDEBUG is a flag of the translation *)
(* unit the macro is expanded in, so each statement carries it.  With       *)
(* NDEBUG a ZD_ macro is a call of the empty function _macro_unused, whose  *)
(* arguments are evaluated as those of any function call; without it the    *)
(* macro is another name of its Z_ counterpart.  An argument with a side    *)
(* effect leaves an "eval" event when it is evaluated.                      *)

\* "n=%d" with an argument expression that has a side effect, as next()
In_effect == [format |-> <<Lit(<<"n", "=">>), Dir("d")>>, args |-> <<1>>,
              readsStatus |-> FALSE]
HasSideEffect(in) == in = In_effect
ArgEvents(in) ==
    IF HasSideEffect(in) THEN <<Ev("eval", "argument", 0, <<>>)>> ELSE <<>>

\* the inputs of a statement: a side-effecting argument is followed only
\* where NDEBUG is defined
InputsUnder(ndebug) == IF ndebug THEN LogInputs \cup {In_effect} ELSE LogInputs

\* the process has aborted: no statement runs any more
AbortedPos == 0

\* faulty variant: the arguments are dropped unevaluated, as by an empty macro
macro_unused_Empty(op, condition, in) ==
    /\ pc \in 1..BodyLen
    /\ executed' = executed \cup {pc}
    /\ pc' = pc + 1
    /\ last' = Done(op, condition, 0, <<>>)
    /\ UNCHANGED <<lib, frames, m_moduleName, m_ZLogFunc, m_logLevel, m_logLevelOrig,
                   m_message, syslogOpen, status, skipped>>

\* _macro_unused(__VA_ARGS__): a statement that calls the empty function
macro_unused(op, condition, in) ==
    /\ pc \in 1..BodyLen
    /\ executed' = executed \cup {pc}
    /\ pc' = pc + 1
    /\ last' = Done(op, condition, 0, ArgEvents(in))
    /\ UNCHANGED <<lib, frames, m_moduleName, m_ZLogFunc, m_logLevel, m_logLevelOrig,
                   m_message, syslogOpen, status, skipped>>

\* the statement Z_LOG(level, ...);
Z_LOG_Statement(level, in) ==
    /\ pc \in 1..BodyLen
    /\ executed' = executed \cup {pc}
    /\ pc' = pc + 1
    /\ last' = Done("Z_LOG", FALSE, 0, Z_LOG(level, in.format, ArgsOf(in)))
    /\ m_message' = Z_LOG_Message(level, in.format, ArgsOf(in))
    /\ UNCHANGED <<lib, frames, m_moduleName, m_ZLogFunc, m_logLevel, m_logLevelOrig,
                   syslogOpen, status, skipped>>

\* "Z_RT_ASSERT(" #condition ") failed!" for a condition written `ok`
AssertFailedFormat ==
    <<Lit(<<"Z", "_", "R", "T", "_", "A", "S", "S", "E", "R", "T", "(", "o", "k",
            ")", " ", "f", "a", "i", "l", "e", "d", "!">>)>>
AssertDisabledFormat ==
    <<Lit(<<
          "a", "s", "s", "e", "r", "t", "(", ")", " ", "i", "s", " ",
          "d", "i", "s", "a", "b", "l", "e", "d", ",", " ", "s", "o",
          " ", "c", "o", "n", "t", "i", "n", "u", "i", "n", "g", " ",
          "d", "e", "s", "p", "i", "t", "e", " ", "f", "a", "i", "l",
          "e", "d", " ", "a", "s", "s", "e", "r", "t", "i", "o", "n",
          ".">>)>>

\* what ZfcLog leaves in the buffer when it found buf there
ZfcLogBuffer(buf, level, format, args) ==
    IF m_ZLogFunc # NULL /\ m_logLevel >= level
    THEN FormatMessage(format, args).buf
    ELSE buf

\* "ZF_RT_ASSERT(" #condition ") failed!" for a condition written `ok`
ZF_AssertFailedFormat ==
    <<Lit(<<"Z", "F", "_", "R", "T", "_", "A", "S", "S", "E", "R", "T", "(", "o",
            "k", ")", " ", "f", "a", "i", "l", "e", "d", "!">>)>>

\* faulty variant: abort() in place of assert(condition)
Z_RT_ASSERT_Aborts(ndebug, condition, again, in) ==
    /\ pc \in 1..BodyLen
    /\ executed' = executed \cup {pc}
    /\ IF condition
       THEN /\ pc' = pc + 1
            /\ last' = Done("Z_RT_ASSERT", condition, 0, <<>>)
            /\ m_message' = m_message
       ELSE LET aborts == TRUE
                failed == IF lib = "z_check" THEN AssertFailedFormat
                          ELSE ZF_AssertFailedFormat
            IN  /\ pc' = IF aborts THEN AbortedPos ELSE pc + 1
                /\ last' = Done("Z_RT_ASSERT", condition, 0,
                                Z_LOG(Z_EMERG, failed, <<>>) \o
                                Z_LOG(Z_EMERG, in.format, ArgsOf(in)) \o
                                (IF aborts
                                 THEN <<Ev("abort", "assert", 0, <<>>)>>
                                 ELSE Z_LOG(Z_ALERT, AssertDisabledFormat, <<>>)))
                /\ m_message' =
                      IF lib = "z_check" THEN m_message
                      ELSE LET m1 == ZfcLogBuffer(m_message, Z_EMERG, failed, <<>>)
                               m2 == ZfcLogBuffer(m1, Z_EMERG, in.format, ArgsOf(in))
                           IN  IF aborts
                               THEN m2
                               ELSE ZfcLogBuffer(m2, Z_ALERT, AssertDisabledFormat, <<>>)
    /\ UNCHANGED <<lib, frames, m_moduleName, m_ZLogFunc, m_logLevel, m_logLevelOrig,
                   syslogOpen, status, skipped>>

\* Z_RT_ASSERT(condition, ...), which is ZF_RT_ASSERT, in a translation unit
\* with or without NDEBUG.  The macro evaluates its condition in the `if` and,
\* where assert() is enabled, once more in assert(condition): `condition` is
\* what the `if` finds and `again` what assert() finds.
Z_RT_ASSERT_Evaluated(ndebug, condition, again, in) ==
    /\ pc \in 1..BodyLen
    /\ executed' = executed \cup {pc}
    /\ IF condition
       THEN /\ pc' = pc + 1
            /\ last' = Done("Z_RT_ASSERT", condition, 0, <<>>)
            /\ m_message' = m_message
       ELSE LET aborts == ~ndebug /\ ~again
                failed == IF lib = "z_check" THEN AssertFailedFormat
                          ELSE ZF_AssertFailedFormat
            IN  /\ pc' = IF aborts THEN AbortedPos ELSE pc + 1
                /\ last' = Done("Z_RT_ASSERT", condition, 0,
                                Z_LOG(Z_EMERG, failed, <<>>) \o
                                Z_LOG(Z_EMERG, in.format, ArgsOf(in)) \o
                                (IF aborts
                                 THEN <<Ev("abort", "assert", 0, <<>>)>>
                                 ELSE Z_LOG(Z_ALERT, AssertDisabledFormat, <<>>)))
                /\ m_message' =
                      IF lib = "z_check" THEN m_message
                      ELSE LET m1 == ZfcLogBuffer(m_message, Z_EMERG, failed, <<>>)
                               m2 == ZfcLogBuffer(m1, Z_EMERG, in.format, ArgsOf(in))
                           IN  IF aborts
                               THEN m2
                               ELSE ZfcLogBuffer(m2, Z_ALERT, AssertDisabledFormat, <<>>)
    /\ UNCHANGED <<lib, frames, m_moduleName, m_ZLogFunc, m_logLevel, m_logLevelOrig,
                   syslogOpen, status, skipped>>

\* Z_RT_ASSERT with a condition that has the same value both times
Z_RT_ASSERT(ndebug, condition, in) ==
    Z_RT_ASSERT_Evaluated(ndebug, condition, condition, in)

\* faulty variant: the two branches of #ifdef NDEBUG are exchanged
ZD_CHECK_Exchanged(ndebug, condition, new_status, level, in) ==
    /\ lib = "z_check"
    /\ IF ndebug THEN Z_CHECK(condition, new_status, level, in)
       ELSE macro_unused("ZD_CHECK", condition, in)

ZD_CHECK(ndebug, condition, new_status, level, in) ==
    /\ lib = "z_check"
    /\ IF ndebug THEN macro_unused("ZD_CHECK", condition, in)
       ELSE Z_CHECK(condition, new_status, level, in)

ZD_LOG(ndebug, level, in) ==
    /\ lib = "z_check"
    /\ IF ndebug THEN macro_unused("ZD_LOG", FALSE, in)
       ELSE Z_LOG_Statement(level, in)

ZD_LOG_IF(ndebug, condition, level, in) ==
    /\ lib = "z_check"
    /\ IF ndebug THEN macro_unused("ZD_LOG_IF", condition, in)
       ELSE Z_LOG_IF(condition, level, in)

ZD_RT_ASSERT(ndebug, condition, in) ==
    /\ lib = "z_check"
    /\ IF ndebug THEN macro_unused("ZD_RT_ASSERT", condition, in)
       ELSE Z_RT_ASSERT(FALSE, condition, in)

InitDebug == InitCheck /\ lib = "z_check"

NextDebug ==
    \/ \E n \in BOOLEAN, c \in BOOLEAN, s \in StatusArgs, l \in LevelArgs :
          \E in \in InputsUnder(n) : ZD_CHECK(n, c, s, l, in)
    \/ \E n \in BOOLEAN, l \in LevelArgs :
          \E in \in InputsUnder(n) : ZD_LOG(n, l, in)
    \/ \E n \in BOOLEAN, c \in BOOLEAN, l \in LevelArgs :
          \E in \in InputsUnder(n) : ZD_LOG_IF(n, c, l, in)
    \/ \E n \in BOOLEAN, c \in BOOLEAN :
          \E in \in InputsUnder(n) : ZD_RT_ASSERT(n, c, in)
    \/ ReturnBeforeLabels
    \/ FallIntoLabels
    \/ LabelCode
    \/ CallFunction

SpecDebug == InitDebug /\ [][NextDebug]_vars

----------------------------------------------------------------------------
(* Properties of the debug-only macros, checked under SpecDebug.            *)

DebugOps == {"ZD_CHECK", "ZD_LOG", "ZD_LOG_IF", "ZD_RT_ASSERT"}

\* the statement that was just run was the ZD_ macro `op` expanded under
\* NDEBUG with the condition `c` and the message arguments of `in`
DebugStepWith(op, c, in) ==
    CASE op = "ZD_CHECK" ->
            \E s \in StatusArgs, l \in LevelArgs : ZD_CHECK(TRUE, c, s, l, in)
      [] op = "ZD_LOG" -> \E l \in LevelArgs : ZD_LOG(TRUE, l, in)
      [] op = "ZD_LOG_IF" -> \E l \in LevelArgs : ZD_LOG_IF(TRUE, c, l, in)
      [] op = "ZD_RT_ASSERT" -> ZD_RT_ASSERT(TRUE, c, in)

\* the levels a statement with these events can have been given: the level of
\* its Log call, or any level when it made none
CalledLevels(events) ==
    IF LogCalls(events) = <<>> THEN LevelArgs ELSE {LogCalls(events)[1].level}

----------------------------------------------------------------------------
(* Static configuration.  The module name, the sink and the initial         *)
(* threshold are macros of the build; Open and Close are compiled out and   *)
(* so is the NULL test of Log.  The sink is chosen by #if, where the        *)
(* preprocessor gives the value 0 to every identifier that is no macro.     *)

\* what a build may write for Z_CHECK_LOG_FUNC / ZF_CHECK_LOG_FUNC
Numerals == {"0", "1", "2", "3"}
LogFuncTokens == {"Z_STDOUT", "Z_STDERR", "Z_SYSLOG", "Z_ZFLOG"} \cup Numerals
NumeralValue(tok) ==
    CASE tok = "0" -> 0 [] tok = "1" -> 1 [] tok = "2" -> 2 [] tok = "3" -> 3

\* the builds: library, sink macro, whether the syslog flag is given, level
StaticBuilds ==
    [lib : {"z_check", "zf_check"}, logFunc : LogFuncTokens,
     hasSyslog : BOOLEAN, initLogLevel : LevelArgs]

\* faulty variant: the enumerators of ZLogType_t keep their values in #if
PPValue_Enumerators(l, tok) ==
    IF tok \in Numerals THEN NumeralValue(tok) ELSE LogTypeOf(l, tok)

\* the value of a token in the expression of an #if: z_check.h defines
\* Z_STDOUT and Z_STDERR as macros in static configuration; the names of
\* zf_check.h are enumerators, which the preprocessor does not know
PPValue(l, tok) ==
    IF tok \in Numerals THEN NumeralValue(tok)
    ELSE IF l = "z_check" /\ tok = "Z_STDOUT" THEN 0
    ELSE IF l = "z_check" /\ tok = "Z_STDERR" THEN 1
    ELSE 0

BuildError == "#error"

\* Z_CT_ASSERT_DECL(condition): the build fails unless the condition holds
Z_CT_ASSERT_DECL(condition) == condition

\* the sink of a build, or BuildError
StaticLogFunc(b) ==
    IF b.lib = "z_check"
    THEN \* z_check.h undefines Z_CHECK_HAS_SYSLOG in static configuration
         IF PPValue(b.lib, b.logFunc) = PPValue(b.lib, "Z_STDOUT") THEN "ZLog_StdOut"
         ELSE IF PPValue(b.lib, b.logFunc) = PPValue(b.lib, "Z_STDERR") THEN "ZLog_StdErr"
         ELSE BuildError
    ELSE IF b.hasSyslog THEN BuildError
         ELSE IF PPValue(b.lib, b.logFunc) = PPValue(b.lib, "Z_STDOUT") THEN "ZfcLog_StdOut"
         ELSE IF PPValue(b.lib, b.logFunc) = PPValue(b.lib, "Z_STDERR") THEN "ZfcLog_StdErr"
         ELSE IF PPValue(b.lib, b.logFunc) = PPValue(b.lib, "Z_ZFLOG") THEN "ZfcLog_ZfLog"
         ELSE BuildError

BuildSucceeds(b) ==
    /\ StaticLogFunc(b) # BuildError
    /\ b.lib = "z_check" => Z_CT_ASSERT_DECL(b.initLogLevel <= MAX_LEGAL_LEVEL)

Str_main == <<"m", "a", "i", "n">>

InitStatic ==
    \E b \in StaticBuilds :
       /\ BuildSucceeds(b)
       /\ lib = b.lib
       /\ m_moduleName = Str_main
       /\ m_ZLogFunc = StaticLogFunc(b)
       /\ m_logLevel = b.initLogLevel
       /\ m_logLevelOrig = b.initLogLevel
       /\ m_message = <<>>
       /\ syslogOpen = FALSE
       /\ status = 0
       /\ pc = 1
       /\ executed = {}
       /\ skipped = {}
       /\ last = NoneDone
       /\ frames = NoFrames

NextStatic ==
    \/ \E l \in LevelArgs : ZLog_LevelSet(l)
    \/ ZLog_LevelReset
    \/ \E l \in LevelArgs, in \in LogInputs : ZLog(l, in)
    \/ \E l \in LevelArgs : ZfcLog_LevelSet(l)
    \/ ZfcLog_LevelReset
    \/ \E l \in LevelArgs, in \in LogInputs : ZfcLog(l, in)

SpecStatic == InitStatic /\ [][NextStatic]_vars

\* C19: in static configuration the sink is the stdout or the stderr console
\* sink in every state: never the external log service (syslog, or the zf_log
\* library), never unset; no connection to the service is open, and Log
\* never writes the "before Open" notice of an unset sink.
C19_StaticSink ==
    /\ m_ZLogFunc \in StdOutSinks \cup StdErrSinks
    /\ ~syslogOpen
    /\ last.op = "Log" =>
          /\ StderrLines(last.events) = <<>>
          /\ \A i \in DOMAIN last.events :
                last.events[i].kind \in {"call", "sink"}
          /\ \A i \in DOMAIN SinkCalls(last.events) :
                SinkCalls(last.events)[i].fn = m_ZLogFunc

\* a Log call of a statically configured zf_check emitted to the stdout sink
C19_Witness ==
    /\ lib = "zf_check"
    /\ last.op = "Log"
    /\ Len(SinkCalls(last.events)) = 1
    /\ m_ZLogFunc \in StdOutSinks
    /\ m_logLevel # m_logLevelOrig

----------------------------------------------------------------------------
(* The sinks that hand a message to a logging service: syslog (both         *)
(* libraries) and the zf_log library (zf_check).  Each converts the level   *)
(* and makes one call of the service.                                       *)

\* faulty variant: the table follows the names of the levels
ZFL2ZFLOG_LEVEL_ByName(level) ==
    CASE level = Z_EMERG  -> "ZF_LOG_FATAL"
      [] level = Z_ALERT  -> "ZF_LOG_FATAL"
      [] level = Z_CRIT   -> "ZF_LOG_ERROR"
      [] level = Z_ERR    -> "ZF_LOG_ERROR"
      [] level = Z_WARN   -> "ZF_LOG_WARN"
      [] level = Z_NOTICE -> "ZF_LOG_INFO"
      [] level = Z_INFO   -> "ZF_LOG_INFO"
      [] level = Z_DEBUG  -> "ZF_LOG_DEBUG"
      [] OTHER            -> "ZF_LOG_NONE"

ZFL2ZFLOG_LEVEL(level) ==
    CASE level = Z_EMERG  -> "ZF_LOG_FATAL"
      [] level = Z_ALERT  -> "ZF_LOG_FATAL"
      [] level = Z_CRIT   -> "ZF_LOG_ERROR"
      [] level = Z_ERR    -> "ZF_LOG_ERROR"
      [] level = Z_WARN   -> "ZF_LOG_WARN"
      [] level = Z_NOTICE -> "ZF_LOG_INFO"
      [] level = Z_INFO   -> "ZF_LOG_DEBUG"
      [] level = Z_DEBUG  -> "ZF_LOG_VERBOSE"
      [] OTHER            -> "ZF_LOG_NONE"

ZFL2SYSLOG_LEVEL(level) == level

ZLog_Level2Syslog(level) == level

\* the call of the service each sink makes for `level`
ZfcLog_ZfLog(level) == [service |-> "ZF_LOG_WRITE", level |-> ZFL2ZFLOG_LEVEL(level)]
ZfcLog_Syslog(level) == [service |-> "syslog", priority |-> ZFL2SYSLOG_LEVEL(level)]
ZLog_Syslog(level) == [service |-> "syslog", priority |-> ZLog_Level2Syslog(level)]

ServiceSinks == {"ZLog_Syslog", "ZfcLog_Syslog", "ZfcLog_ZfLog"}

\* the service call made by the sink invocation e
ServiceCall(e) ==
    CASE e.fn = "ZfcLog_ZfLog"  -> ZfcLog_ZfLog(e.level)
      [] e.fn = "ZfcLog_Syslog" -> ZfcLog_Syslog(e.level)
      [] e.fn = "ZLog_Syslog"   -> ZLog_Syslog(e.level)

\* Open with a service sink at the most verbose threshold, then Log and
\* LevelSet at every level
SinkLevelArgs == 0..MaxLevelArg
OpenArgsSink ==
    [logType : {LogTypeOf(lib, "Z_SYSLOG"), LogTypeOf(lib, "Z_ZFLOG")} \ {-1},
     logLevel : {Z_DEBUG}, moduleName : {Str_svc}]

NextSink ==
    \/ \E a \in OpenArgsSink : ZLog_Open(a.logType, a.logLevel, a.moduleName)
    \/ \E l \in SinkLevelArgs : ZLog_LevelSet(l)
    \/ ZLog_LevelReset
    \/ \E l \in SinkLevelArgs, in \in LogInputs : ZLog(l, in)
    \/ \E a \in OpenArgsSink : ZfcLog_Open(a.logType, a.logLevel, a.moduleName)
    \/ \E l \in SinkLevelArgs : ZfcLog_LevelSet(l)
    \/ ZfcLog_LevelReset
    \/ \E l \in SinkLevelArgs, in \in LogInputs : ZfcLog(l, in)

SpecSink == Init /\ [][NextSink]_vars

\* the table of the claim, by level
ClaimedServiceLevel ==
    [l \in Z_EMERG..Z_DEBUG |->
        CASE l = Z_EMERG  -> "ZF_LOG_FATAL"
          [] l = Z_ALERT  -> "ZF_LOG_FATAL"
          [] l = Z_CRIT   -> "ZF_LOG_ERROR"
          [] l = Z_ERR    -> "ZF_LOG_ERROR"
          [] l = Z_WARN   -> "ZF_LOG_WARN"
          [] l = Z_NOTICE -> "ZF_LOG_INFO"
          [] l = Z_INFO   -> "ZF_LOG_DEBUG"
          [] l = Z_DEBUG  -> "ZF_LOG_VERBOSE"]

ServiceSinkCalls ==
    SelectSeq(SinkCalls(last.events), LAMBDA e : e.fn \in ServiceSinks)

\* C20 (as amended): the zf_log sink of zf_check maps each of the 8 levels to
\* the zf_log level of the table Emergency->Fatal, Alert->Fatal,
\* Critical->Error, Error->Error, Warning->Warn, Notice->Info, Info->Debug,
\* Debug->Verbose (and any other value to None); the syslog sinks of both
\* libraries use no table and pass the level itself as the syslog priority.
C20_ServiceLevel ==
    \A i \in DOMAIN ServiceSinkCalls :
       LET e == ServiceSinkCalls[i]
       IN  /\ e.fn = m_ZLogFunc
           /\ e.fn = "ZfcLog_ZfLog" =>
                 /\ ServiceCall(e).service = "ZF_LOG_WRITE"
                 /\ ServiceCall(e).level =
                       IF e.level \in DOMAIN ClaimedServiceLevel
                       THEN ClaimedServiceLevel[e.level]
                       ELSE "ZF_LOG_NONE"
           /\ e.fn \in SyslogSinks =>
                 /\ ServiceCall(e).service = "syslog"
                 /\ ServiceCall(e).priority = e.level

\* the zf_log sink was just invoked at level Info, which it hands to zf_log
\* as Debug
C20_Witness ==
    /\ last.op = "Log"
    /\ Len(ServiceSinkCalls) = 1
    /\ ServiceSinkCalls[1].fn = "ZfcLog_ZfLog"
    /\ ServiceSinkCalls[1].level = Z_INFO
    /\ ServiceCall(ServiceSinkCalls[1]).level = "ZF_LOG_DEBUG"

\* C20 as claimed: every sink of an external log service maps each of the 8
\* levels by the table.
C20_Original ==
    \A i \in DOMAIN ServiceSinkCalls :
       LET e == ServiceSinkCalls[i]
       IN  e.level \in DOMAIN ClaimedServiceLevel =>
              /\ ServiceCall(e).service = "ZF_LOG_WRITE"
              /\ ServiceCall(e).level = ClaimedServiceLevel[e.level]

----------------------------------------------------------------------------
(* The console sinks.  ZLog_StdFile / ZfcLog_StdFile write one line,        *)
(* "<module>: [<LEVEL_NAME>] <file>:<line>:<function>: <message>\n".         *)
(* z_check.c takes the name from the array levelStrs without a test of the  *)
(* index: a read past its 8 entries is undefined, and its outcomes are kept *)
(* as a set.  zf_check.c uses a chain of comparisons that ends in           *)
(* "UNKNOWN_LEVEL".                                                         *)

levelStrs ==
    <<"EMERGENCY", "ALERT", "CRITICAL", "ERROR", "WARNING", "NOTICE", "INFO", "DEBUG">>

\* what a read of levelStrs[i] past the array can give: some pointer of the
\* stack frame, which fprintf prints as bytes, which happens to be one of the
\* names, or which it cannot read at all
OutOfBoundsRead ==
    {<<levelStrs[i]>> : i \in DOMAIN levelStrs} \cup
    {<<"<bytes found past levelStrs>">>, <<"<the process is killed>">>}

\* faulty variant: the first entry of the table is missing
ZLog_LevelStr_Shifted(level) ==
    IF level + 2 \in DOMAIN levelStrs THEN {<<levelStrs[level + 2]>>}
    ELSE OutOfBoundsRead

\* levelStrs[(int)level]: the names the call can return
ZLog_LevelStr(level) ==
    IF level + 1 \in DOMAIN levelStrs THEN {<<levelStrs[level + 1]>>}
    ELSE OutOfBoundsRead

ZFL_STR(level) ==
    CASE level = Z_EMERG  -> <<"EMERGENCY">>
      [] level = Z_ALERT  -> <<"ALERT">>
      [] level = Z_CRIT   -> <<"CRITICAL">>
      [] level = Z_ERR    -> <<"ERROR">>
      [] level = Z_WARN   -> <<"WARNING">>
      [] level = Z_NOTICE -> <<"NOTICE">>
      [] level = Z_INFO   -> <<"INFO">>
      [] level = Z_DEBUG  -> <<"DEBUG">>
      [] OTHER            -> <<"UNKNOWN_LEVEL">>

\* __FILENAME__, __LINE__ and __func__ of the statement that logs
CallSite == [file |-> <<"example.c">>, line |-> 88, func |-> <<"testExampleLogs">>]

\* fprintf(outfile, "%s: [%s] %s:%d:%s: %s\n", m_moduleName, name, file, line,
\* func, message)
StdFileLine(name, file, line, func, message) ==
    m_moduleName \o <<":", " ", "[">> \o name \o <<"]", " ">> \o file \o <<":">> \o
    Decimal(line) \o <<":">> \o func \o <<":", " ">> \o message \o <<"\n">>

\* the lines a call of the console sink can write
ZLog_StdFile(level, file, line, func, message) ==
    {StdFileLine(name, file, line, func, message) : name \in ZLog_LevelStr(level)}
ZfcLog_StdFile(level, file, line, func) ==
    {StdFileLine(ZFL_STR(level), file, line, func, m_message)}

ConsoleSinks == {"ZLog_StdOut", "ZLog_StdErr", "ZfcLog_StdOut", "ZfcLog_StdErr"}

\* the lines the console sink invocation e can write; ZfcLog has put the
\* message of e into m_message before it calls the sink
ConsoleLines(e) ==
    IF e.fn \in {"ZLog_StdOut", "ZLog_StdErr"}
    THEN ZLog_StdFile(e.level, CallSite.file, CallSite.line, CallSite.func, e.text)
    ELSE ZfcLog_StdFile(e.level, CallSite.file, CallSite.line, CallSite.func)

\* Open with a console sink at the most verbose threshold and any module
\* name, then LevelSet and Log at every level
OpenArgsConsole ==
    IF m_ZLogFunc = NULL
    THEN [logType : {LogTypeOf(lib, "Z_STDOUT"), LogTypeOf(lib, "Z_STDERR")},
          logLevel : {Z_DEBUG}, moduleName : ModuleNameArgs]
    ELSE {[logType |-> LogTypeOf(lib, "Z_STDOUT"), logLevel |-> Z_DEBUG,
           moduleName |-> Str_svc]}

NextConsole ==
    \/ \E a \in OpenArgsConsole : ZLog_Open(a.logType, a.logLevel, a.moduleName)
    \/ \E l \in SinkLevelArgs : ZLog_LevelSet(l)
    \/ ZLog_LevelReset
    \/ \E l \in SinkLevelArgs, in \in LogInputs : ZLog(l, in)
    \/ \E a \in OpenArgsConsole : ZfcLog_Open(a.logType, a.logLevel, a.moduleName)
    \/ \E l \in SinkLevelArgs : ZfcLog_LevelSet(l)
    \/ ZfcLog_LevelReset
    \/ \E l \in SinkLevelArgs, in \in LogInputs : ZfcLog(l, in)

SpecConsole == Init /\ [][NextConsole]_vars

ConsoleSinkCalls ==
    SelectSeq(SinkCalls(last.events), LAMBDA e : e.fn \in ConsoleSinks)

\* the table of the claim
ClaimedLevelName ==
    [l \in Z_EMERG..Z_DEBUG |->
        CASE l = Z_EMERG  -> "EMERGENCY"
          [] l = Z_ALERT  -> "ALERT"
          [] l = Z_CRIT   -> "CRITICAL"
          [] l = Z_ERR    -> "ERROR"
          [] l = Z_WARN   -> "WARNING"
          [] l = Z_NOTICE -> "NOTICE"
          [] l = Z_INFO   -> "INFO"
          [] l = Z_DEBUG  -> "DEBUG"]

\* the line of the claim for a message at level l with the name of the table
ClaimedLine(l, message) ==
    m_moduleName \o <<":", " ", "[", ClaimedLevelName[l], "]", " ", "example.c", ":",
                      "8", "8", ":", "testExampleLogs", ":", " ">> \o message \o <<"\n">>

\* the module name the last Open on a closed logger was to set
ModuleNameOfOpen(n) ==
    IF n # NULL_NAME THEN n
    ELSE IF lib = "z_check" THEN DEFAULT_MODULE_NAME_Z ELSE DEFAULT_MODULE_NAME_ZF

----------------------------------------------------------------------------
(* The level that reaches ZLog_LevelStr, checked under Spec.                *)

\* the sinks of z_check.c: each of them calls ZLog_LevelStr(level)
LevelStrCallers == {"ZLog_StdOut", "ZLog_StdErr", "ZLog_Syslog"}

LevelStrCalls ==
    SelectSeq(SinkCalls(last.events), LAMBDA e : e.fn \in LevelStrCallers)

\* C22 as claimed: whenever a sink looks up the display name of a level with
\* ZLog_LevelStr, the level is within the table [0,7], and an open logger has
\* no threshold above the maximum legal level.
C22_Original ==
    /\ \A i \in DOMAIN LevelStrCalls : LevelStrCalls[i].level \in LegalLevels
    /\ (lib = "z_check" /\ m_ZLogFunc # NULL) => m_logLevel <= MAX_LEGAL_LEVEL

\* LevelSet has stored a threshold above the table and a Log at that level
\* has reached the sink, whose ZLog_LevelStr reads past levelStrs
C22_Witness ==
    /\ lib = "z_check"
    /\ last.op = "Log"
    /\ m_logLevel > MAX_LEGAL_LEVEL
    /\ Len(LevelStrCalls) = 1
    /\ LevelStrCalls[1].level = m_logLevel
    /\ ZLog_LevelStr(LevelStrCalls[1].level) = OutOfBoundsRead

----------------------------------------------------------------------------
(* The threshold given by Open, checked under Spec.                         *)

\* C23 (as amended): originalThreshold is assigned only by an Open that finds
\* the logger not open (the first Open, or an Open after a Close), which
\* gives it the value it gives currentThreshold; LevelSet, LevelReset, Log,
\* Close and an Open on an open logger leave it as it is.
C23_OriginalThreshold ==
    [][/\ (last'.op # "Open" \/ m_ZLogFunc # NULL) => m_logLevelOrig' = m_logLevelOrig
       /\ (last'.op = "Open" /\ m_ZLogFunc = NULL) => m_logLevelOrig' = m_logLevel']_vars

\* the logger was opened at Info, its threshold set to Debug, and it has just
\* been closed: originalThreshold is still Info
C23_Witness ==
    /\ last.op = "Close"
    /\ m_ZLogFunc = NULL
    /\ m_logLevelOrig = Z_INFO
    /\ m_logLevel = Z_DEBUG

\* C23 as claimed: once Open has initialised the logger, no later operation
\* changes originalThreshold, a Close followed by an Open included.
C23_Original ==
    [][(m_ZLogFunc # NULL \/ last.op = "Close") =>
          m_logLevelOrig' = m_logLevelOrig]_vars

----------------------------------------------------------------------------
(* A message of zero characters, checked under SpecFormat.                  *)

ZeroCharInputs ==
    {in \in FormatInputs :
        ~FormatFails(in.format, ArgsOf(in)) /\ Expand(in.format, ArgsOf(in)) = <<>>}

\* C24: a Log call on an open logger that passes the threshold and whose
\* formatted message has zero characters (an empty format, or "%s" with the
\* empty string) does not invoke the sink and writes nothing: the call is its
\* only event, and the logger state stays as it is.
C24_EmptyMessage ==
    [][(/\ last'.op = "Log"
        /\ m_ZLogFunc # NULL
        /\ LogCalls(last'.events)[1].level <= m_logLevel) =>
          \A in \in ZeroCharInputs :
             (\/ ZLog(LogCalls(last'.events)[1].level, in)
              \/ ZfcLog(LogCalls(last'.events)[1].level, in)) =>
                /\ Len(last'.events) = 1
                /\ SinkCalls(last'.events) = <<>>
                /\ StderrLines(last'.events) = <<>>
                /\ loggerVars' = loggerVars
                /\ syslogOpen' = syslogOpen]_vars

\* a Log at Error on a logger open at Info that reached no sink: its message
\* had zero characters
C24_Witness ==
    /\ last.op = "Log"
    /\ m_ZLogFunc # NULL
    /\ m_logLevel = Z_INFO
    /\ LogCalls(last.events)[1].level = Z_ERR
    /\ Len(last.events) = 1

----------------------------------------------------------------------------
(* The order of the steps inside a check macro, checked under SpecCheck.    *)

CheckOps == {"Z_CHECK", "Z_CHECKG", "Z_CHECKC"}

\* the label a position is the position of
LabelAt(pos) == pos - LabelPos(0)

\* the statement just run was a check macro with a true condition, the level
\* l and the message "s=%d", status; its new status and its label are those
\* the step has left in status and pc
CheckStepReadingStatus(op, l) ==
    CASE op = "Z_CHECK"  -> Z_CHECK(TRUE, status', l, In_status)
      [] op = "Z_CHECKG" -> Z_CHECKG(TRUE, LabelAt(pc'), status', l, In_status)
      [] op = "Z_CHECKC" -> Z_CHECK_EXT_CONT(TRUE, status', l, In_status)

\* C25: a Check, CheckNamed or CheckContinue whose condition is true makes its
\* Log call first, with the arguments as they are then, so that a message
\* that reads the status variable shows the value from before the assignment;
\* then it assigns the new status, and only then (Check, CheckNamed) control
\* is at the label.
C25_CheckOrder ==
    [][(last'.op \in CheckOps /\ last'.cond) =>
          /\ Len(LogCalls(last'.events)) = 1
          /\ last'.events[1].kind = "call"
          /\ last'.op # "Z_CHECKC" => pc' \in {LabelPos(g) : g \in Labels}
          /\ last'.op = "Z_CHECKC" => pc' = pc + 1
          /\ (/\ SinkCalls(last'.events) # <<>>
              /\ CheckStepReadingStatus(last'.op, LogCalls(last'.events)[1].level)) =>
                /\ Len(SinkCalls(last'.events)) = 1
                /\ SinkCalls(last'.events)[1].text = <<"s", "=">> \o Decimal(status)]_vars

\* as in main() of example.c: status was -2, and a Check that sets it to -1
\* has logged "s=-2"
C25_Witness ==
    /\ last.op = "Z_CHECK"
    /\ last.cond
    /\ status = -1
    /\ pc = LabelPos(CleanupLabel)
    /\ Len(SinkCalls(last.events)) = 1
    /\ SinkCalls(last.events)[1].text = <<"s", "=", "-", "2">>

----------------------------------------------------------------------------
(* The chain of labels, checked under SpecCheck.                            *)

ExecutedLabels == {j \in Labels : LabelPos(j) \in executed}
SkippedLabels == {j \in Labels : LabelPos(j) \in skipped}

\* C26: CheckNamed(true, L, newStatus, ...) sets status to newStatus and takes
\* control to label L; from L the code of L and of every label declared after
\* it runs in declaration order, no code of a label declared before L runs,
\* and then the function returns with that status.  CheckNamed(false, ...)
\* has no effect.
C26_CheckNamed ==
    /\ []((pc = RetPos /\ skipped # {}) =>
             \E g \in Labels :
                /\ ExecutedLabels = g..NumLabels
                /\ SkippedLabels = 1..(g - 1))
    /\ [][/\ (last'.op = "Z_CHECKG" /\ last'.cond) =>
                /\ pc' \in {LabelPos(g) : g \in Labels}
                /\ {j \in Labels : LabelPos(j) \in skipped'} = 1..(LabelAt(pc') - 1)
                /\ {j \in Labels : LabelPos(j) \in executed'} = {}
                /\ \E in \in LogInputs :
                      Z_CHECKG(TRUE, LabelAt(pc'), status',
                               LogCalls(last'.events)[1].level, in)
          /\ (last'.op = "Z_CHECKG" /\ ~last'.cond) =>
                /\ last'.events = <<>>
                /\ pc' = pc + 1
                /\ UNCHANGED <<status, skipped, m_message, loggerVars>>
          /\ (pc \in {LabelPos(j) : j \in Labels}) =>
                /\ pc' = pc + 1
                /\ executed' = executed \cup {pc}
                /\ UNCHANGED <<status, skipped>>]_vars

\* CheckNamed(true, 2, -2, ...) as the second statement of a function with
\* two labels: the function has returned -2 after the code of the
\* second label, and the code of the first label did not run
C26_Witness ==
    /\ pc = RetPos
    /\ status = -2
    /\ ExecutedLabels = 2..NumLabels
    /\ SkippedLabels = {1}
    /\ executed \cap (1..BodyLen) = {1, 2}

\* C27: LogIf(condition, level, msg) makes exactly one Log call when the
\* condition is true and none when it is false; in both cases the status
\* variable keeps its value and control passes to the next statement.
C27_LogIf ==
    [][last'.op = "Z_LOG_IF" =>
          /\ Len(LogCalls(last'.events)) = (IF last'.cond THEN 1 ELSE 0)
          /\ ~last'.cond => (last'.events = <<>> /\ m_message' = m_message)
          /\ status' = status
          /\ pc' = pc + 1
          /\ skipped' = skipped
          /\ executed' = executed \cup {pc}
          /\ UNCHANGED <<m_moduleName, m_ZLogFunc, m_logLevel, m_logLevelOrig>>]_vars

\* a LogIf with a true condition after a failed CheckContinue: one Log call,
\* status still -1, nothing jumped over
C27_Witness ==
    /\ last.op = "Z_LOG_IF"
    /\ last.cond
    /\ Len(LogCalls(last.events)) = 1
    /\ status = -1
    /\ pc = 3
    /\ skipped = {}

\* a LogIf with a false condition: no event at all
C27_WitnessFalse ==
    /\ last.op = "Z_LOG_IF"
    /\ ~last.cond
    /\ last.events = <<>>

----------------------------------------------------------------------------
(* Termination of a function that uses the check macros *)

(* The macros expand to one statement and may stand wherever a statement   *)
(* may, the code under a label included: the cleanup code of main() uses   *)
(* ZFC_LOG_IF.  A function executes its next statement until it returns.   *)

UnwindLevels == {Z_ERR, Z_DEBUG}
UnwindInputs == {In_ok}
LabelPositions == {LabelPos(j) : j \in Labels}

\* Z_CHECK_EXT_GOTO in the code under a label; the position of the statement
\* is kept in last.arg
CheckInLabelCode(op, condition, label, newval, level, in) ==
    /\ pc \in LabelPositions
    /\ executed' = executed \cup {pc}
    /\ IF condition
       THEN /\ last' = Done(op, condition, pc,
                            Z_LOG(level, in.format, ArgsOf(in)))
            /\ m_message' = Z_LOG_Message(level, in.format, ArgsOf(in))
            /\ status' = newval
            /\ Goto(label)
       ELSE /\ last' = Done(op, condition, pc, <<>>)
            /\ pc' = pc + 1
            /\ UNCHANGED <<m_message, status, skipped>>
    /\ UNCHANGED <<lib, frames, m_moduleName, m_ZLogFunc, m_logLevel, m_logLevelOrig,
                   syslogOpen>>

\* Z_LOG_IF in the code under a label (example.c:53)
LogIfInLabelCode(condition, level, in) ==
    /\ pc \in LabelPositions
    /\ executed' = executed \cup {pc}
    /\ pc' = pc + 1
    /\ IF condition
       THEN /\ last' = Done("Z_LOG_IF", condition, pc,
                            Z_LOG(level, in.format, ArgsOf(in)))
            /\ m_message' = Z_LOG_Message(level, in.format, ArgsOf(in))
       ELSE /\ last' = Done("Z_LOG_IF", condition, pc, <<>>)
            /\ UNCHANGED m_message
    /\ UNCHANGED <<lib, frames, m_moduleName, m_ZLogFunc, m_logLevel, m_logLevelOrig,
                   syslogOpen, status, skipped>>

\* the logger as main() of example.c opens it
InitUnwind ==
    /\ lib \in {"z_check", "zf_check"}
    /\ m_ZLogFunc = (IF lib = "z_check" THEN "ZLog_StdOut" ELSE "ZfcLog_StdOut")
    /\ m_moduleName = Str_svc
    /\ m_logLevel = Z_INFO
    /\ m_logLevelOrig = Z_INFO
    /\ m_message = <<>>
    /\ syslogOpen = FALSE
    /\ status = 0
    /\ pc = 1
    /\ executed = {}
    /\ skipped = {}
    /\ last = NoneDone
    /\ frames = NoFrames

NextUnwind ==
    \/ \E c \in BOOLEAN, s \in StatusArgs, l \in UnwindLevels, in \in UnwindInputs :
          Z_CHECK(c, s, l, in)
    \/ \E c \in BOOLEAN, g \in Labels, s \in StatusArgs, l \in UnwindLevels,
          in \in UnwindInputs : Z_CHECKG(c, g, s, l, in)
    \/ \E c \in BOOLEAN, s \in StatusArgs, l \in UnwindLevels, in \in UnwindInputs :
          Z_CHECK_EXT_CONT(c, s, l, in)
    \/ \E c \in BOOLEAN, l \in UnwindLevels, in \in UnwindInputs :
          Z_LOG_IF(c, l, in)
    \/ ReturnBeforeLabels
    \/ FallIntoLabels
    \/ LabelCode
    \/ \E c \in BOOLEAN, s \in StatusArgs, l \in UnwindLevels, in \in UnwindInputs :
          CheckInLabelCode("Z_CHECK", c, CleanupLabel, s, l, in)
    \/ \E c \in BOOLEAN, g \in Labels, s \in StatusArgs, l \in UnwindLevels,
          in \in UnwindInputs : CheckInLabelCode("Z_CHECKG", c, g, s, l, in)
    \/ \E c \in BOOLEAN, l \in UnwindLevels, in \in UnwindInputs :
          LogIfInLabelCode(c, l, in)
    \/ CallFunction

\* a sequential program always executes its next statement
SpecUnwind == InitUnwind /\ [][NextUnwind]_vars /\ WF_vars(NextUnwind)

Running == pc \in 1..BodyLen
Returned == pc = RetPos

\* the last statement was a check that jumped to a label at or before its
\* own position
BackwardJump == last.op \in CheckOps /\ last.cond /\ pc <= last.arg

\* C28 (as amended): the state machine of a function has no cycle except
\* through a Check or CheckNamed that stands in the code under a label and
\* names that label or an earlier one.  Every other statement moves forward,
\* so every execution eventually reaches function return or jumps backward
\* again, and a function that has started unwinding to a label never returns
\* to Running.
C28_NoCycles ==
    /\ (~Returned) ~> (Returned \/ BackwardJump)
    /\ [][/\ (~Returned /\ ~BackwardJump') => pc' > pc
          /\ (pc \in LabelPositions) => pc' \in LabelPositions \cup {RetPos}]_vars

\* a function that jumped from its first statement to the cleanup label has
\* run the code under it and returned
C28_Witness ==
    /\ Returned
    /\ status = -1
    /\ executed = {1, LabelPos(CleanupLabel)}
    /\ skipped # {}
    /\ last.op = "label"

\* C28 as stated: from Running, every execution eventually reaches function
\* return.  A Check under the cleanup label whose condition stays true jumps
\* to that label again and again.
C28_Original == Running ~> Returned

----------------------------------------------------------------------------
(* Runtime assertions of both libraries, with and without NDEBUG *)

NextAssert ==
    \/ \E n \in BOOLEAN, c \in BOOLEAN, a \in BOOLEAN, in \in LogInputs :
          Z_RT_ASSERT_Evaluated(n, c, a, in)
    \/ ReturnBeforeLabels
    \/ FallIntoLabels
    \/ LabelCode
    \/ CallFunction

SpecAssert == InitCheck /\ [][NextAssert]_vars

AbortEvents(events) == SelectKind(events, "abort")

\* the text of the assertion-failed notice
FailedNotice ==
    Expand(IF lib = "z_check" THEN AssertFailedFormat ELSE ZF_AssertFailedFormat, <<>>)

\* C29: a runtime assertion whose condition is true logs nothing and has no
\* effect.  One whose condition is false makes two Log calls at Z_EMERG, the
\* assertion-failed notice first, and then aborts the process only where
\* assert() is enabled; where it is disabled (NDEBUG) it makes one further
\* Log call at Z_ALERT and execution continues after the assertion.
C29_RuntimeAssert ==
    [][last'.op = "Z_RT_ASSERT" =>
          LET calls == LogCalls(last'.events)
              aborts == AbortEvents(last'.events)
          IN  /\ UNCHANGED <<status, skipped, m_moduleName, m_ZLogFunc, m_logLevel,
                             m_logLevelOrig>>
              /\ last'.cond =>
                    /\ last'.events = <<>>
                    /\ pc' = pc + 1
                    /\ m_message' = m_message
              /\ ~last'.cond =>
                    /\ Len(calls) >= 2
                    /\ last'.events[1] = calls[1]
                    /\ calls[1].level = Z_EMERG
                    /\ calls[2].level = Z_EMERG
                    /\ m_ZLogFunc # NULL =>
                          /\ SinkCalls(last'.events)[1].text = FailedNotice
                          /\ last'.events[2] = SinkCalls(last'.events)[1]
                    /\ IF aborts # <<>>
                       THEN /\ Len(calls) = 2
                            /\ last'.events[Len(last'.events)].kind = "abort"
                            /\ pc' = AbortedPos
                       ELSE /\ Len(calls) = 3
                            /\ calls[3].level = Z_ALERT
                            /\ pc' = pc + 1
                    /\ \A n \in BOOLEAN, a \in BOOLEAN, in \in LogInputs :
                          Z_RT_ASSERT_Evaluated(n, FALSE, a, in) =>
                             /\ aborts # <<>> => ~n
                             /\ n => aborts = <<>>
                             /\ (~n /\ ~a) => aborts # <<>>]_vars

\* a failed assertion where assert() is enabled: two Log calls, both
\* dispatched, and the process has aborted
C29_Witness ==
    /\ last.op = "Z_RT_ASSERT"
    /\ ~last.cond
    /\ pc = AbortedPos
    /\ Len(LogCalls(last.events)) = 2
    /\ Len(SinkCalls(last.events)) = 2
    /\ AbortEvents(last.events) # <<>>

\* a failed assertion under NDEBUG: three Log calls and the next statement
C29_WitnessDisabled ==
    /\ last.op = "Z_RT_ASSERT"
    /\ ~last.cond
    /\ pc = 2
    /\ Len(LogCalls(last.events)) = 3
    /\ LogCalls(last.events)[3].level = Z_ALERT
    /\ AbortEvents(last.events) = <<>>

----------------------------------------------------------------------------
(* The example program, src/example.c, statement by statement.  pc is the   *)
(* line of the next statement, executed and skipped are sets of lines, and  *)
(* status is the `status` of the function that is running: a callee starts  *)
(* with `int status = 0` and main assigns what the callee returns.          *)

Str_example == <<"e", "x", "a", "m", "p", "l", "e">>

\* the name main() opens the logger with, and the other names an Open takes
ExampleNames == {Str_example} \cup ModuleNameArgs

\* the message texts of the program
Text ==
    [AssertsFailed |->
       <<"[", "X", "]", " ", "t", "e", "s", "t", "E", "x", "a", "m", "p", "l",
         "e", "A", "s", "s", "e", "r", "t", "s", " ", "f", "a", "i", "l", "e",
         "d", "!">>,
     LogsFailed |->
       <<"[", "X", "]", " ", "t", "e", "s", "t", "E", "x", "a", "m", "p", "l",
         "e", "L", "o", "g", "s", " ", "f", "a", "i", "l", "e", "d", "!">>,
     ChecksFailed |->
       <<"[", "X", "]", " ", "t", "e", "s", "t", "E", "x", "a", "m", "p", "l",
         "e", "C", "h", "e", "c", "k", "s", " ", "f", "a", "i", "l", "e", "d",
         "!">>,
     CheckGsFailed |->
       <<"[", "+", "]", " ", "t", "e", "s", "t", "E", "x", "a", "m", "p", "l",
         "e", "C", "h", "e", "c", "k", "G", "s", " ", "f", "a", "i", "l", "e",
         "d", "!", " ", "(", "a", "s", " ", "e", "x", "p", "e", "c", "t", "e",
         "d", ")", " ", "s", "t", "a", "t", "u", "s", " ", "=", " ">>,
     NotPrinted |->
       <<"[", "X", "]", " ", "t", "h", "i", "s", " ", "w", "i", "l", "l", " ",
         "n", "o", "t", " ", "p", "r", "i", "n", "t">>,
     Returning |->
       <<"[", "+", "]", " ", "r", "e", "t", "u", "r", "n", "i", "n", "g">>,
     TwoPlusTwo |->
       <<"2", " ", "+", " ", "2", " ", "=", "=", " ", "4", ".">>,
     Hello |->
       <<"[", "+", "]", " ", "h", "e", "l", "l", "o", ",", " ", "l", "o", "g">>,
     WillPrint |->
       <<"[", "+", "]", " ", "t", "h", "i", "s", " ", "w", "i", "l", "l", " ",
         "p", "r", "i", "n", "t">>,
     DebugNotPrinted |->
       <<"[", "X", "]", " ", "w", "i", "l", "l", " ", "n", "o", "t", " ", "p",
         "r", "i", "n", "t">>,
     DebugPrinted |->
       <<"[", "+", "]", " ", "w", "i", "l", "l", " ", "p", "r", "i", "n", "t",
         "!">>,
     NotWillOccur |->
       <<"[", "X", "]", " ", "t", "h", "i", "s", " ", "n", "o", "t", " ", "w",
         "i", "l", "l", " ", "o", "c", "c", "u", "r">>,
     Continues |->
       <<"[", "+", "]", " ", "t", "h", "i", "s", " ", "w", "i", "l", "l", " ",
         "o", "c", "c", "u", "r", ",", " ", "b", "u", "t", " ", "s", "i", "n",
         "c", "e", " ", "Z", "F", "_", "C", "H", "E", "C", "K", "C", " ", "c",
         "o", "n", "t", "i", "n", "u", "e", "s", ",", " ", "p", "r", "o", "c",
         "e", "s", "s", "i", "n", "g", " ", "w", "i", "l", "l", " ", "g", "o",
         " ", "o", "n">>,
     WillNotOccur |->
       <<"[", "X", "]", " ", "t", "h", "i", "s", " ", "w", "i", "l", "l", " ",
         "n", "o", "t", " ", "o", "c", "c", "u", "r">>,
     WillOccur |->
       <<"[", "+", "]", " ", "t", "h", "i", "s", " ", "w", "i", "l", "l", " ",
         "o", "c", "c", "u", "r">>]

Msg(text) == [format |-> <<Lit(text)>>, args |-> <<>>, readsStatus |-> FALSE]

\* "... status = %d", status
Msg_CheckGsFailed ==
    [format |-> <<Lit(Text.CheckGsFailed), Dir("d")>>, args |-> <<>>,
     readsStatus |-> TRUE]

\* a statement: its kind, its condition ("true", "false", "status" for
\* 0 != status, "rv" for 0 != rvOfSomeOperation with the value assigned just
\* before), the level, the new status (or the variable status itself), the
\* line a goto or a call leads to, the line of the statement that follows
\* (for a return: in the caller) and the message
Stmt(kind, cond, rv, level, newval, newIsStatus, target, next, in) ==
    [kind |-> kind, cond |-> cond, rv |-> rv, level |-> level, newval |-> newval,
     newIsStatus |-> newIsStatus, target |-> target, next |-> next, in |-> in]

Flow(kind, target, next) ==
    Stmt(kind, "true", 0, 0, 0, FALSE, target, next, Msg(<<>>))
Log(kind, cond, level, next, text) ==
    Stmt(kind, cond, 0, level, 0, FALSE, 0, next, Msg(text))
Check(op, cond, rv, target, newval, level, next, in) ==
    Stmt(op, cond, rv, level, newval, FALSE, target, next, in)

\* the line after main's last statement: the program has ended
ExitPos == 56

Program ==
    \* main
    32 :> Flow("Open", 0, 34) @@
    34 :> Flow("call", 77, 35) @@
    35 :> Check("Z_CHECK", "status", 0, 52, -1, Z_ERR, 37, Msg(Text.AssertsFailed)) @@
    37 :> Flow("call", 88, 38) @@
    38 :> Check("Z_CHECK", "status", 0, 52, -1, Z_ERR, 40, Msg(Text.LogsFailed)) @@
    40 :> Flow("call", 115, 41) @@
    41 :> Check("Z_CHECK", "status", 0, 52, -1, Z_ERR, 43, Msg(Text.ChecksFailed)) @@
    43 :> Flow("call", 137, 44) @@
    44 :> Check("Z_CHECK", "status", 0, 52, -1, Z_ERR, 49, Msg_CheckGsFailed) @@
    49 :> Log("Z_LOG", "true", Z_ERR, 52, Text.NotPrinted) @@
    52 :> Flow("label", 0, 53) @@
    53 :> Log("Z_LOG_IF", "status", Z_INFO, 54, Text.Returning) @@
    54 :> Flow("Close", 0, 55) @@
    55 :> Flow("return", 0, ExitPos) @@
    \* testExampleAsserts
    77 :> Stmt("Z_RT_ASSERT", "true", 0, 0, 0, FALSE, 0, 80, Msg(Text.TwoPlusTwo)) @@
    80 :> Flow("return", 0, 35) @@
    \* testExampleLogs
    88 :> Log("Z_LOG", "true", Z_INFO, 90, Text.Hello) @@
    90 :> Log("Z_LOG_IF", "false", Z_INFO, 91, Text.NotPrinted) @@
    91 :> Log("Z_LOG_IF", "true", Z_INFO, 96, Text.WillPrint) @@
    96 :> Log("Z_LOG", "true", Z_DEBUG, 97, Text.DebugNotPrinted) @@
    97 :> Stmt("LevelSet", "true", 0, Z_DEBUG, 0, FALSE, 0, 98, Msg(<<>>)) @@
    98 :> Log("Z_LOG", "true", Z_DEBUG, 99, Text.DebugPrinted) @@
    99 :> Flow("LevelReset", 0, 100) @@
    100 :> Log("Z_LOG", "true", Z_DEBUG, 102, Text.DebugNotPrinted) @@
    102 :> Flow("return", 0, 38) @@
    \* testExampleChecks
    115 :> Check("Z_CHECK", "rv", 0, 125, -1, Z_ERR, 120, Msg(Text.NotWillOccur)) @@
    120 :> Stmt("Z_CHECKC", "rv", -1, Z_WARN, 0, TRUE, 0, 123, Msg(Text.Continues)) @@
    123 :> Check("Z_CHECK", "false", 0, 125, -1, Z_ERR, 125, Msg(Text.WillNotOccur)) @@
    125 :> Flow("label", 0, 126) @@
    126 :> Flow("return", 0, 41) @@
    \* testExampleCheckGs
    137 :> Check("Z_CHECKG", "false", 0, 144, -1, Z_ERR, 139, Msg(Text.NotWillOccur)) @@
    139 :> Check("Z_CHECKG", "true", 0, 142, -2, Z_ERR, 141, Msg(Text.WillOccur)) @@
    141 :> Flow("return", 0, 44) @@
    142 :> Flow("label", 0, 144) @@
    144 :> Flow("label", 0, 146) @@
    146 :> Flow("return", 0, 44)

Lines == DOMAIN Program

\* the statement about to run, if it is of one of the kinds
AtStmt(kinds) == pc \in Lines /\ Program[pc].kind \in kinds

CondValue(s) ==
    IF s.cond = "status" THEN 0 # status
    ELSE IF s.cond = "rv" THEN 0 # s.rv
    ELSE s.cond = "true"

ExOpen ==
    /\ AtStmt({"Open"})
    /\ \E name \in ExampleNames :
          ZfcLog_Open_Body(LogTypeOf(lib, "Z_STDOUT"), Z_INFO, name)
    /\ pc' = Program[pc].next
    /\ executed' = executed \cup {pc}
    /\ UNCHANGED <<status, skipped>>

ExClose ==
    /\ AtStmt({"Close"})
    /\ ZfcLog_Close_Body
    /\ pc' = Program[pc].next
    /\ executed' = executed \cup {pc}
    /\ UNCHANGED <<status, skipped>>

ExLevelSet ==
    /\ AtStmt({"LevelSet"})
    /\ ZfcLog_LevelSet_Body(Program[pc].level)
    /\ pc' = Program[pc].next
    /\ executed' = executed \cup {pc}
    /\ UNCHANGED <<status, skipped>>

ExLevelReset ==
    /\ AtStmt({"LevelReset"})
    /\ ZfcLog_LevelReset_Body
    /\ pc' = Program[pc].next
    /\ executed' = executed \cup {pc}
    /\ UNCHANGED <<status, skipped>>

\* ZFC_LOG(level, ...) and ZFC_LOG_IF(condition, level, ...)
ExLog ==
    /\ AtStmt({"Z_LOG", "Z_LOG_IF"})
    /\ LET s == Program[pc]
       IN  /\ IF CondValue(s)
              THEN /\ last' = Done(s.kind, TRUE, 0,
                                   Z_LOG(s.level, s.in.format, ArgsOf(s.in)))
                   /\ m_message' = Z_LOG_Message(s.level, s.in.format, ArgsOf(s.in))
              ELSE /\ last' = Done(s.kind, FALSE, 0, <<>>)
                   /\ m_message' = m_message
           /\ pc' = s.next
    /\ executed' = executed \cup {pc}
    /\ UNCHANGED <<lib, frames, m_moduleName, m_ZLogFunc, m_logLevel, m_logLevelOrig,
                   syslogOpen, status, skipped>>

\* faulty variant: ZF_CHECK without its `goto`
ExCheck_NoGoto ==
    /\ AtStmt({"Z_CHECK", "Z_CHECKG"})
    /\ LET s == Program[pc]
       IN  /\ IF CondValue(s)
              THEN /\ last' = Done(s.kind, TRUE, 0,
                                   Z_LOG(s.level, s.in.format, ArgsOf(s.in)))
                   /\ m_message' = Z_LOG_Message(s.level, s.in.format, ArgsOf(s.in))
                   /\ status' = s.newval
              ELSE /\ last' = Done(s.kind, FALSE, 0, <<>>)
                   /\ UNCHANGED <<m_message, status>>
           /\ pc' = s.next
    /\ executed' = executed \cup {pc}
    /\ UNCHANGED <<lib, frames, m_moduleName, m_ZLogFunc, m_logLevel, m_logLevelOrig,
                   syslogOpen, skipped>>

\* ZF_CHECK and ZF_CHECKG: ZF_CHECK_EXT_GOTO with the statement's label
ExCheck ==
    /\ AtStmt({"Z_CHECK", "Z_CHECKG"})
    /\ LET s == Program[pc]
       IN  IF CondValue(s)
           THEN /\ last' = Done(s.kind, TRUE, 0,
                                Z_LOG(s.level, s.in.format, ArgsOf(s.in)))
                /\ m_message' = Z_LOG_Message(s.level, s.in.format, ArgsOf(s.in))
                /\ status' = s.newval
                /\ pc' = s.target
                /\ skipped' = skipped \cup {l \in Lines : pc < l /\ l < s.target}
           ELSE /\ last' = Done(s.kind, FALSE, 0, <<>>)
                /\ pc' = s.next
                /\ UNCHANGED <<m_message, status, skipped>>
    /\ executed' = executed \cup {pc}
    /\ UNCHANGED <<lib, frames, m_moduleName, m_ZLogFunc, m_logLevel, m_logLevelOrig,
                   syslogOpen>>

\* ZF_CHECKC: ZF_CHECK_EXT_CONT
ExCheckCont ==
    /\ AtStmt({"Z_CHECKC"})
    /\ LET s == Program[pc]
       IN  /\ IF CondValue(s)
              THEN /\ last' = Done(s.kind, TRUE, 0,
                                   Z_LOG(s.level, s.in.format, ArgsOf(s.in)))
                   /\ m_message' = Z_LOG_Message(s.level, s.in.format, ArgsOf(s.in))
                   /\ status' = IF s.newIsStatus THEN status ELSE s.newval
              ELSE /\ last' = Done(s.kind, FALSE, 0, <<>>)
                   /\ UNCHANGED <<m_message, status>>
           /\ pc' = s.next
    /\ executed' = executed \cup {pc}
    /\ UNCHANGED <<lib, frames, m_moduleName, m_ZLogFunc, m_logLevel, m_logLevelOrig,
                   syslogOpen, skipped>>

\* ZF_RT_ASSERT(condition, ...): the failing branch ends the program where
\* assert() is enabled
ExAssert ==
    /\ AtStmt({"Z_RT_ASSERT"})
    /\ LET s == Program[pc]
       IN  IF CondValue(s)
           THEN /\ last' = Done(s.kind, TRUE, 0, <<>>)
                /\ pc' = s.next
                /\ m_message' = m_message
           ELSE \E ndebug \in BOOLEAN :
                   /\ last' = Done(s.kind, FALSE, 0,
                                   Z_LOG(Z_EMERG, ZF_AssertFailedFormat, <<>>) \o
                                   Z_LOG(Z_EMERG, s.in.format, ArgsOf(s.in)) \o
                                   (IF ndebug
                                    THEN Z_LOG(Z_ALERT, AssertDisabledFormat, <<>>)
                                    ELSE <<Ev("abort", "assert", 0, <<>>)>>))
                   /\ pc' = IF ndebug THEN s.next ELSE AbortedPos
                   /\ m_message' =
                         LET m1 == ZfcLogBuffer(m_message, Z_EMERG,
                                                ZF_AssertFailedFormat, <<>>)
                             m2 == ZfcLogBuffer(m1, Z_EMERG, s.in.format, ArgsOf(s.in))
                         IN  IF ndebug
                             THEN ZfcLogBuffer(m2, Z_ALERT, AssertDisabledFormat, <<>>)
                             ELSE m2
    /\ executed' = executed \cup {pc}
    /\ UNCHANGED <<lib, frames, m_moduleName, m_ZLogFunc, m_logLevel, m_logLevelOrig,
                   syslogOpen, status, skipped>>

\* status = f(): control enters f, whose status starts at 0
ExCall ==
    /\ AtStmt({"call"})
    /\ pc' = Program[pc].target
    /\ status' = 0
    /\ executed' = executed \cup {pc}
    /\ last' = Done("call", FALSE, 0, <<>>)
    /\ UNCHANGED <<lib, frames, m_moduleName, m_ZLogFunc, m_logLevel, m_logLevelOrig,
                   m_message, syslogOpen, skipped>>

\* return status; the caller assigns the value to its own status
ExReturn ==
    /\ AtStmt({"return"})
    /\ pc' = Program[pc].next
    /\ executed' = executed \cup {pc}
    /\ last' = Done("return", FALSE, 0, <<>>)
    /\ UNCHANGED <<lib, frames, m_moduleName, m_ZLogFunc, m_logLevel, m_logLevelOrig,
                   m_message, syslogOpen, status, skipped>>

\* a label: control falls through it
ExLabel ==
    /\ AtStmt({"label"})
    /\ pc' = Program[pc].next
    /\ executed' = executed \cup {pc}
    /\ last' = Done("label", FALSE, 0, <<>>)
    /\ UNCHANGED <<lib, frames, m_moduleName, m_ZLogFunc, m_logLevel, m_logLevelOrig,
                   m_message, syslogOpen, status, skipped>>

\* the process starts: the statics of zf_check.c, main at its first statement
InitExample ==
    /\ lib = "zf_check"
    /\ m_moduleName = NULL_NAME
    /\ m_ZLogFunc = NULL
    /\ m_logLevel = 0
    /\ m_logLevelOrig = 0
    /\ m_message = <<>>
    /\ syslogOpen = FALSE
    /\ status = 0
    /\ pc = 32
    /\ executed = {}
    /\ skipped = {}
    /\ last = NoneDone
    /\ frames = NoFrames

NextExample ==
    \/ ExOpen
    \/ ExClose
    \/ ExLevelSet
    \/ ExLevelReset
    \/ ExLog
    \/ ExCheck
    \/ ExCheckCont
    \/ ExAssert
    \/ ExCall
    \/ ExReturn
    \/ ExLabel

SpecExample == InitExample /\ [][NextExample]_vars

\* lines of src/example.c the properties speak of
At ==
    [FailingCheck |-> 44, SkippedStatement |-> 49, ReturningLogIf |-> 53,
     CloseStatement |-> 54, NamedCheck |-> 139, UnusedReturn |-> 141,
     Label_err2 |-> 142, Label_err1 |-> 144]

Mark_X == <<"[", "X", "]">>
StartsWith(text, prefix) ==
    Len(text) >= Len(prefix) /\ SubSeq(text, 1, Len(prefix)) = prefix

LoggerOps == {"Open", "Close", "LevelSet", "LevelReset", "Z_LOG", "Z_LOG_IF",
              "Z_CHECK", "Z_CHECKG", "Z_CHECKC", "Z_RT_ASSERT"}

\* C30: in the example program no message marked "[X]" is ever dispatched to
\* the sink; the named-check example returns -2 after jumping to err2, the
\* label its second CheckNamed names, and falling through err1; main's
\* failing Check logs the old status -2 and sets status to -1; the statement
\* after that Check is skipped; "[+] returning" is the last line dispatched;
\* Close is the last logger operation; and main returns -1.
C30_Example ==
    /\ [](\A i \in DOMAIN SinkCalls(last.events) :
             ~StartsWith(SinkCalls(last.events)[i].text, Mark_X))
    /\ [](At.SkippedStatement \notin executed /\ At.UnusedReturn \notin executed)
    /\ []((pc = At.FailingCheck /\ last.op = "return") =>
             /\ status = -2
             /\ {At.NamedCheck, At.Label_err2, At.Label_err1} \subseteq executed
             /\ At.UnusedReturn \in skipped)
    /\ [][pc = At.NamedCheck => pc' = At.Label_err2]_vars
    /\ [][pc = At.FailingCheck =>
             /\ status = -2
             /\ Len(SinkCalls(last'.events)) = 1
             /\ SinkCalls(last'.events)[1].text = Text.CheckGsFailed \o <<"-", "2">>
             /\ status' = -1
             /\ pc' # At.SkippedStatement
             /\ At.SkippedStatement \in skipped']_vars
    /\ []((At.ReturningLogIf \in executed /\ SinkCalls(last.events) # <<>>) =>
             /\ pc = At.CloseStatement
             /\ Len(SinkCalls(last.events)) = 1
             /\ SinkCalls(last.events)[1].text = Text.Returning)
    /\ [](pc = At.CloseStatement => SinkCalls(last.events) # <<>>)
    /\ [](At.CloseStatement \in executed => last.op \notin LoggerOps \ {"Close"})
    /\ [](pc = ExitPos => (status = -1 /\ At.CloseStatement \in executed))

\* the program has ended: main has returned -1, the logger is closed, the
\* statement after the failing Check was jumped over
C30_Witness ==
    /\ pc = ExitPos
    /\ status = -1
    /\ m_ZLogFunc = NULL
    /\ At.SkippedStatement \in skipped
    /\ {At.FailingCheck, At.ReturningLogIf, At.CloseStatement,
        At.Label_err2} \subseteq executed

----------------------------------------------------------------------------
(* Frame of LevelSet, LevelReset and Log, checked under Spec *)

\* C31: LevelSet changes currentThreshold only, to its argument, and
\* LevelReset changes currentThreshold only, to originalThreshold; neither
\* changes sink, moduleName or originalThreshold, neither produces output,
\* and both are possible and take effect whether or not the logger is open.
\* Log changes none of sink, moduleName, currentThreshold, originalThreshold.
C31_LevelFrame ==
    /\ [](ENABLED (ZLog_LevelReset \/ ZfcLog_LevelReset))
    /\ [](ENABLED (ZLog_LevelSet(Z_DEBUG) \/ ZfcLog_LevelSet(Z_DEBUG)))
    /\ [][/\ last'.op = "LevelSet" =>
                /\ m_logLevel' = last'.arg
                /\ last'.events = <<>>
                /\ UNCHANGED <<m_ZLogFunc, m_moduleName, m_logLevelOrig,
                               m_message, syslogOpen>>
          /\ last'.op = "LevelReset" =>
                /\ m_logLevel' = m_logLevelOrig
                /\ last'.events = <<>>
                /\ UNCHANGED <<m_ZLogFunc, m_moduleName, m_logLevelOrig,
                               m_message, syslogOpen>>
          /\ last'.op = "Log" =>
                UNCHANGED <<m_ZLogFunc, m_moduleName, m_logLevel, m_logLevelOrig,
                            syslogOpen>>]_vars

\* a LevelSet on a logger that is not open has changed the threshold
C31_Witness ==
    /\ last.op = "LevelSet"
    /\ m_ZLogFunc = NULL
    /\ m_logLevel = Z_WARN
    /\ m_logLevelOrig # Z_WARN
    /\ last.arg = Z_WARN

----------------------------------------------------------------------------
(* The syslog connection, checked under Spec *)

OpenlogCalls(events) == SelectKind(events, "openlog")
CloselogCalls(events) == SelectKind(events, "closelog")

\* C32: in every reachable state the syslog connection is open if and only
\* if the active sink is the syslog sink.  openlog() is called exactly by an
\* Open that selects that sink on a logger that is not open, and closelog()
\* exactly by a Close while that sink is active, so that every openlog()
\* finds the connection closed and every closelog() finds it open.
C32_Connection ==
    /\ [](syslogOpen <=> m_ZLogFunc \in SyslogSinks)
    /\ [][/\ OpenlogCalls(last'.events) # <<>> <=>
                /\ last'.op = "Open"
                /\ m_ZLogFunc = NULL
                /\ m_ZLogFunc' \in SyslogSinks
          /\ CloselogCalls(last'.events) # <<>> <=>
                /\ last'.op = "Close"
                /\ m_ZLogFunc \in SyslogSinks
          /\ OpenlogCalls(last'.events) # <<>> =>
                /\ ~syslogOpen /\ syslogOpen'
                /\ Len(OpenlogCalls(last'.events)) = 1
          /\ CloselogCalls(last'.events) # <<>> =>
                /\ syslogOpen /\ ~syslogOpen'
                /\ Len(CloselogCalls(last'.events)) = 1
          /\ syslogOpen' # syslogOpen =>
                OpenlogCalls(last'.events) \o CloselogCalls(last'.events) # <<>>]_vars

\* a Close has closed the connection an earlier Open had opened
C32_Witness ==
    /\ last.op = "Close"
    /\ CloselogCalls(last.events) # <<>>
    /\ ~syslogOpen
    /\ m_ZLogFunc = NULL

\* an Open has selected the syslog sink and opened the connection
C32_WitnessOpen ==
    /\ last.op = "Open"
    /\ OpenlogCalls(last.events) # <<>>
    /\ syslogOpen

----------------------------------------------------------------------------
(* Open after Close, checked under Spec *)

\* the module name a logger has before it is opened and after it is closed
ClosedName == IF lib = "z_check" THEN <<>> ELSE NULL_NAME

\* what Open(a) on a logger that is not open is to leave in the four fields
ConfiguredAs(a) ==
    /\ m_moduleName' =
          (IF a.moduleName # NULL_NAME THEN a.moduleName
           ELSE IF lib = "z_check" THEN DEFAULT_MODULE_NAME_Z
           ELSE DEFAULT_MODULE_NAME_ZF)
    /\ m_logLevel' =
          (IF lib = "z_check" /\ a.logLevel \notin LegalLevels THEN MAX_LEGAL_LEVEL
           ELSE a.logLevel)
    /\ m_logLevelOrig' = m_logLevel'
    /\ m_ZLogFunc' \in
          (IF a.logType = LogTypeOf(lib, "Z_STDOUT") THEN StdOutSinks
           ELSE IF a.logType = LogTypeOf(lib, "Z_SYSLOG") THEN SyslogSinks
           ELSE IF a.logType = LogTypeOf(lib, "Z_ZFLOG") THEN {"ZfcLog_ZfLog"}
           ELSE StdErrSinks)

\* C33: after Close the logger is back in the unopened state: the sink is
\* unset and the module name cleared, and a following Open is not treated as
\* a double open (it makes no Log call) and sets sink, moduleName,
\* currentThreshold and originalThreshold from its own arguments alone, with
\* no character of the previous module name left, also when the new name is
\* shorter than the old one.
C33_OpenAfterClose ==
    /\ [](last.op = "Close" => (m_ZLogFunc = NULL /\ m_moduleName = ClosedName))
    /\ [][(last.op = "Close" /\ last'.op = "Open") =>
             /\ LogCalls(last'.events) = <<>>
             /\ SinkCalls(last'.events) = <<>>
             /\ m_ZLogFunc' # NULL
             /\ \A a \in OpenArgs :
                   (\/ ZLog_Open(a.logType, a.logLevel, a.moduleName)
                    \/ ZfcLog_Open(a.logType, a.logLevel, a.moduleName))
                      => ConfiguredAs(a)]_vars

\* a logger reopened right after a Close, as "svc" on stdout at Z_WARN: no
\* event, and every field is what this Open was given
C33_Witness ==
    /\ last.op = "Open"
    /\ last.prev = "Close"
    /\ last.events = <<>>
    /\ m_moduleName = Str_svc
    /\ m_logLevel = Z_WARN
    /\ m_logLevelOrig = Z_WARN
    /\ m_ZLogFunc \in StdOutSinks

----------------------------------------------------------------------------
(* The Emergency level against every threshold: the logger on some threshold,
   changed by LevelSet and LevelReset, with Log calls and runtime assertions *)

NextEmerg ==
    \/ NextAssert
    \/ \E l \in LevelArgs : ZLog_LevelSet(l) \/ ZfcLog_LevelSet(l)
    \/ ZLog_LevelReset
    \/ ZfcLog_LevelReset
    \/ \E l \in LevelArgs, in \in LogInputs : ZLog(l, in) \/ ZfcLog(l, in)

SpecEmerg == InitCheck /\ [][NextEmerg]_vars

\* the dispatches at Z_EMERG among the events of a step
EmergSinks(events) == SelectSeq(SinkCalls(events), LAMBDA e : e.level = Z_EMERG)

\* C34: on an opened logger a Log call at Z_EMERG whose formatted message is
\* not empty is dispatched to the sink, once, whatever the threshold is; a
\* failed runtime assertion on an opened logger has its assertion-failed
\* notice dispatched at Z_EMERG, and its second line too when that line's
\* formatted message is not empty.
C34_EmergencyPasses ==
    [][m_ZLogFunc # NULL =>
          /\ (last'.op = "Log" /\ LogCalls(last'.events)[1].level = Z_EMERG) =>
                \A in \in LogInputs :
                   ((ZLog(Z_EMERG, in) \/ ZfcLog(Z_EMERG, in)) /\ NonEmptyResult(in)) =>
                      /\ Len(SinkCalls(last'.events)) = 1
                      /\ SinkCalls(last'.events)[1].level = Z_EMERG
                      /\ SinkCalls(last'.events)[1].fn = m_ZLogFunc
                      /\ SinkCalls(last'.events)[1].text # <<>>
          /\ (last'.op = "Z_RT_ASSERT" /\ ~last'.cond) =>
                LET sinks == EmergSinks(last'.events)
                IN  /\ Len(sinks) >= 1
                    /\ sinks[1].text = FailedNotice
                    /\ sinks[1].fn = m_ZLogFunc
                    /\ \A n \in BOOLEAN, a \in BOOLEAN, in \in LogInputs :
                          (Z_RT_ASSERT_Evaluated(n, FALSE, a, in) /\ NonEmptyResult(in)) =>
                             /\ Len(sinks) = 2
                             /\ sinks[2].text # <<>>
                             /\ sinks[2].fn = m_ZLogFunc]_vars

\* a failed assertion right after LevelSet(Z_EMERG), the lowest threshold a
\* LevelSet can give: both Z_EMERG lines are dispatched
C34_Witness ==
    /\ last.op = "Z_RT_ASSERT"
    /\ ~last.cond
    /\ last.prev = "LevelSet"
    /\ m_logLevel = Z_EMERG
    /\ m_ZLogFunc # NULL
    /\ Len(EmergSinks(last.events)) = 2

\* a Log call at Z_EMERG dispatched while the threshold is Z_EMERG
C34_WitnessLog ==
    /\ last.op = "Log"
    /\ m_logLevel = Z_EMERG
    /\ LogCalls(last.events)[1].level = Z_EMERG
    /\ Len(SinkCalls(last.events)) = 1

----------------------------------------------------------------------------
(* Two calls of ZLog / ZfcLog in progress at once, interleaved statement by
   statement.  frames[c] is the activation of call c: its position, its
   arguments and, for ZLog, its local buffer `message`; both functions have
   the local `rc`.  ZfcLog has no buffer of its own: it formats into the
   static m_message, and its sinks read m_message when they print. *)

Callers == {1, 2}

InterleaveLevels == {Z_ERR, Z_INFO, Z_DEBUG}

\* a frame before the call: positions are "idle", "gate" (the tests of
\* m_ZLogFunc and of the level), "vsnprintf", "rc_test" (the test of -1 == rc
\* with the fallback snprintf), "dispatch" (the test of 0 < rc with the call
\* of the sink) and "returned"
IdleFrame ==
    [at |-> "idle", level |-> Z_EMERG, in |-> In_empty, message |-> <<>>, rc |-> 0]

InitInterleave ==
    /\ lib \in {"z_check", "zf_check"}
    /\ m_ZLogFunc = (IF lib = "z_check" THEN "ZLog_StdOut" ELSE "ZfcLog_StdOut")
    /\ m_moduleName = Str_svc
    /\ m_logLevel = Z_INFO
    /\ m_logLevelOrig = Z_INFO
    /\ m_message = <<>>
    /\ syslogOpen = FALSE
    /\ status = 0
    /\ pc = 1
    /\ executed = {}
    /\ skipped = {}
    /\ last = NoneDone
    /\ frames = [c \in Callers |-> IdleFrame]

\* a step of call c that changes its frame to f, the static buffer to buffer
\* and has the events given
FrameStep(c, f, buffer, events) ==
    /\ frames' = [frames EXCEPT ![c] = f]
    /\ m_message' = buffer
    /\ last' = Done("LogStep", FALSE, c, events)
    /\ UNCHANGED <<lib, m_moduleName, m_ZLogFunc, m_logLevel, m_logLevelOrig,
                   syslogOpen, status, pc, executed, skipped>>

\* the call itself: ZLog(level, ...) / ZfcLog(level, ...) is entered
LogEnter(c, level, in) ==
    /\ frames[c].at = "idle"
    /\ FrameStep(c, [IdleFrame EXCEPT !.at = "gate", !.level = level, !.in = in],
                 m_message,
                 <<Ev("call", IF lib = "z_check" THEN "ZLog" ELSE "ZfcLog", level, <<>>)>>)

\* if (NULL == m_ZLogFunc) ... else if (ZLog_LevelPasses(level)) /
\* if (m_logLevel >= level)
LogGate(c) ==
    /\ frames[c].at = "gate"
    /\ IF m_ZLogFunc = NULL
       THEN FrameStep(c, [frames[c] EXCEPT !.at = "returned"], m_message,
                      <<Ev("stderr", "fprintf", frames[c].level,
                           IF lib = "z_check" THEN NoticeText_Z ELSE NoticeText_ZF)>>)
       ELSE IF (IF lib = "z_check" THEN ZLog_LevelPasses(frames[c].level)
                ELSE m_logLevel >= frames[c].level)
            THEN FrameStep(c, [frames[c] EXCEPT !.at = "vsnprintf"], m_message, <<>>)
            ELSE FrameStep(c, [frames[c] EXCEPT !.at = "returned"], m_message, <<>>)

\* faulty variant: ZLog formats into the static buffer too
LogVsnprintf_Static(c) ==
    /\ frames[c].at = "vsnprintf"
    /\ LET r == Vsnprintf(MESSAGE_MAX_LEN, frames[c].in.format, ArgsOf(frames[c].in))
       IN  FrameStep(c, [frames[c] EXCEPT !.at = "rc_test", !.rc = r.rc], r.buf, <<>>)

\* rc = vsnprintf(message, MESSAGE_MAX_LEN, format, args) in ZLog,
\* rc = vsnprintf(m_message, MESSAGE_MAX_LEN, format, args) in ZfcLog
LogVsnprintf(c) ==
    /\ frames[c].at = "vsnprintf"
    /\ LET r == Vsnprintf(MESSAGE_MAX_LEN, frames[c].in.format, ArgsOf(frames[c].in))
       IN  IF lib = "z_check"
           THEN FrameStep(c, [frames[c] EXCEPT !.at = "rc_test", !.rc = r.rc,
                                               !.message = r.buf],
                          m_message, <<>>)
           ELSE FrameStep(c, [frames[c] EXCEPT !.at = "rc_test", !.rc = r.rc],
                          r.buf, <<>>)

\* if (-1 == rc) { rc = snprintf(..., "(failed to format message) %s", format); }
LogFallback(c) ==
    /\ frames[c].at = "rc_test"
    /\ IF -1 = frames[c].rc
       THEN LET r == Vsnprintf(MESSAGE_MAX_LEN, <<Lit(FailMarker), Dir("s")>>,
                               <<RawText(frames[c].in.format)>>)
            IN  IF lib = "z_check"
                THEN FrameStep(c, [frames[c] EXCEPT !.at = "dispatch", !.rc = r.rc,
                                                    !.message = r.buf],
                               m_message, <<>>)
                ELSE FrameStep(c, [frames[c] EXCEPT !.at = "dispatch", !.rc = r.rc],
                               r.buf, <<>>)
       ELSE FrameStep(c, [frames[c] EXCEPT !.at = "dispatch"], m_message, <<>>)

\* if (0 < rc) { m_ZLogFunc(level, file, line, func, message); } in ZLog;
\* if (0 < rc) { m_zfcLogFunc(level, file, line, func); } in ZfcLog, whose
\* sink prints m_message
LogDispatch(c) ==
    /\ frames[c].at = "dispatch"
    /\ FrameStep(c, [frames[c] EXCEPT !.at = "returned"], m_message,
                 IF 0 < frames[c].rc
                 THEN <<Ev("sink", m_ZLogFunc, frames[c].level,
                           IF lib = "z_check" THEN frames[c].message ELSE m_message)>>
                 ELSE <<>>)

NextInterleave ==
    \/ \E c \in Callers, l \in InterleaveLevels, in \in LogInputs : LogEnter(c, l, in)
    \/ \E c \in Callers : LogGate(c)
    \/ \E c \in Callers : LogVsnprintf(c)
    \/ \E c \in Callers : LogFallback(c)
    \/ \E c \in Callers : LogDispatch(c)

SpecInterleave == InitInterleave /\ [][NextInterleave]_vars

\* the step just taken was call c's invocation of the sink
Dispatched(c) ==
    /\ last.op = "LogStep"
    /\ last.arg = c
    /\ SinkCalls(last.events) # <<>>

\* the message formatted from call c's own format and arguments
OwnMessage(c) == FormatMessage(frames[c].in.format, ArgsOf(frames[c].in)).buf

\* both calls pass the threshold
BothPass == \A c \in Callers : frames[c].at # "idle" /\ frames[c].level <= m_logLevel

\* C35 as claimed: when two Log calls that both pass the threshold are
\* interleaved statement by statement, each sink invocation receives the
\* message formatted from its own call's format and arguments, with the
\* per-call buffer of ZLog and with the static buffer of ZfcLog.
C35_Original ==
    \A c \in Callers :
       (Dispatched(c) /\ BothPass) => SinkCalls(last.events)[1].text = OwnMessage(c)

\* C35, the part that holds: with the per-call buffer of ZLog each sink
\* invocation receives the message formatted from its own call's format and
\* arguments, however the two calls are interleaved.
C35_PerCallBuffer ==
    \A c \in Callers :
       (lib = "z_check" /\ Dispatched(c) /\ BothPass) =>
          SinkCalls(last.events)[1].text = OwnMessage(c)

\* ZLog's sink is invoked for call c while the other call is between its
\* vsnprintf and its own sink invocation, with a different message
C35_Witness ==
    \E c \in Callers, d \in Callers :
       /\ lib = "z_check"
       /\ Dispatched(c)
       /\ BothPass
       /\ frames[d].at \in {"rc_test", "dispatch"}
       /\ frames[d].message # frames[c].message
       /\ frames[d].message # <<>>

\* ZfcLog's sink is invoked for one call and prints the message of the other
C35_WitnessStatic ==
    \E c \in Callers, d \in Callers :
       /\ lib = "zf_check"
       /\ Dispatched(c)
       /\ BothPass
       /\ SinkCalls(last.events)[1].text # OwnMessage(c)
       /\ SinkCalls(last.events)[1].text = OwnMessage(d)

====
